---- MODULE Spec2Model ----
(***************************************************************************)
(* Job dispatch dashboard: the jobs / subcontractors / job_updates tables  *)
(* with their row-level-security policies, the useJobs and                 *)
(* useSubcontractors hooks (connected and mock mode), the public job       *)
(* portal (PublicJobView), the admin job form (JobView), the dashboard     *)
(* handlers, the Express passthrough endpoints, the invitation functions   *)
(* of the database with signup, and the utility functions of jobUtils and  *)
(* of the dashboard (profit, phone links, week boundaries, date filter).   *)
(*                                                                         *)
(* Every column value is modelled by its text: a number by its JavaScript  *)
(* toString() rendering, SQL NULL / JS null by NULL, a JS undefined by     *)
(* UNDEFINED.                                                              *)
(***************************************************************************)
EXTENDS Integers, Sequences, FiniteSets, TLC

VARIABLES
    isUsingMockData,   \* useJobs / useSubcontractors: the hooks run on mock data
    actor,             \* role of the signed-in dashboard user: "admin" or "user"
    db_jobs,           \* table jobs: id of each existing row -> row
    db_subs,           \* table subcontractors: id of each existing row -> name
    job_updates,       \* table job_updates, in insertion order
    jobs,              \* useJobs state: id of each listed job -> job
    subcontractors,    \* useSubcontractors state: id of each listed one -> name
    pub,               \* PublicJobView component state: job, formData
    adm,               \* JobView component state: job, formData, selectedSubcontractorId
    users,             \* table profiles: id of each existing user -> role
    notifications,     \* useNotification: the list of notifications; after a page
                       \* handler, what that handler showed (older ones, each of
                       \* a positive duration, have expired)
    opened,            \* the WhatsApp links that handler got a browser window for
    admin_invitations, \* table admin_invitations: id of each existing row -> row
    now,               \* now() of the database, in days
    args,              \* arguments handed to a utility function
    ret,               \* what the utility function returned for them
    timers,            \* ids of the notifications whose setTimeout is pending
    last,              \* the operation performed by the last step, with its outcome
    steps              \* number of operations performed so far

vars == <<isUsingMockData, actor, db_jobs, db_subs, job_updates, jobs,
          subcontractors, pub, adm, users, notifications, opened,
          admin_invitations, now, args, ret, timers, last, steps>>

(***************************************************************************)
(* Bounds of the model.                                                    *)
(***************************************************************************)
MaxSteps == 3
MaxCents == 12
LastYear == 2024
MaxAge == 33

(***************************************************************************)
(* Values.                                                                 *)
(***************************************************************************)
NULL == "<null>"
UNDEFINED == "<undefined>"
NaN == -1

JobRows == {"1", "2", "3"}
SubIds == {"1", "2", "3", "4"}
UserIds == {"u1", "u2"}
Statuses == {"pending", "assigned", "in_progress", "completed", "cancelled"}
\* Amounts, in cents: every one up to MaxCents, and those of the mock data
Amounts == (0..MaxCents) \cup {100, 105, 7500, 15000}

\* Job['...'] columns that the update paths touch.

Falsy(v) == v \in {NULL, UNDEFINED, ""}

(***************************************************************************)
(* Number <-> text conversions of JavaScript.  A number with at most two   *)
(* decimals is held as its count of cents (75 is 7500); the rounding error *)
(* of a binary difference of two such numbers is far below half a cent, so *)
(* toFixed(2) of it is the exact difference.                               *)
(***************************************************************************)
twoDigits(c) == IF c < 10 THEN "0" \o ToString(c) ELSE ToString(c)

\* Number.prototype.toString
numToString(n) ==
    LET a == IF n < 0 THEN 0 - n ELSE n
        whole == ToString(a \div 100)
        frac == a % 100
        digits == IF frac = 0 THEN whole
                  ELSE IF frac % 10 = 0 THEN whole \o "." \o ToString(frac \div 10)
                  ELSE whole \o "." \o twoDigits(frac)
    IN  IF n < 0 THEN "-" \o digits ELSE digits

\* Number.prototype.toFixed(2)
toFixed2(n) ==
    LET a == IF n < 0 THEN 0 - n ELSE n
        digits == ToString(a \div 100) \o "." \o twoDigits(a % 100)
    IN  IF n < 0 THEN "-" \o digits ELSE digits

\* The numeric texts of the model and the number each denotes
parseTable ==
    [s \in UNION {{numToString(n), toFixed2(n)} : n \in Amounts} |->
        CHOOSE n \in Amounts : s \in {numToString(n), toFixed2(n)}]

\* parseFloat: the number a numeric text denotes, NaN for any other text
parseFloat(s) == IF s \in DOMAIN parseTable THEN parseTable[s] ELSE NaN

\* x?.toString() || '' of a nullable column value (already held as text)
toFormText(v) == IF Falsy(v) THEN "" ELSE v

\* formData.x ? parseFloat(formData.x) : <otherwise>, serialised
numOr(s, otherwise) == IF s = "" THEN otherwise ELSE numToString(parseFloat(s))

\* A profit that is not floored at zero
calculateJobProfitUnfloored(salePrice, partsCost) ==
    LET sale == IF parseFloat(salePrice) = NaN THEN 0 ELSE parseFloat(salePrice)
        parts == IF parseFloat(partsCost) = NaN THEN 0 ELSE parseFloat(partsCost)
    IN  toFixed2(sale - parts)

\* calculateJobProfit(salePrice, partsCost)
calculateJobProfit(salePrice, partsCost) ==
    LET sale == IF parseFloat(salePrice) = NaN THEN 0 ELSE parseFloat(salePrice)
        parts == IF parseFloat(partsCost) = NaN THEN 0 ELSE parseFloat(partsCost)
        profit == sale - parts
    IN  IF profit >= 0 THEN toFixed2(profit) ELSE "0.00"

\* canCompleteJob(job)
canCompleteJob(job) ==
    LET receipt_url == IF "receipt_url" \in DOMAIN job THEN job.receipt_url
                       ELSE UNDEFINED
    IN  receipt_url # NULL /\ receipt_url # ""

(***************************************************************************)
(* Persistence: patches, constraints and policies.                         *)
(***************************************************************************)
\* JSON.stringify of an update body: keys whose value is undefined are dropped
wire(updates) ==
    [f \in {k \in DOMAIN updates : updates[k] # UNDEFINED} |-> updates[f]]

\* An update that would also move the job to 'assigned' whenever it names a
\* subcontractor
applyPatchForcingStatus(row, body) ==
    [f \in DOMAIN row |->
        IF f \in DOMAIN body THEN body[f]
        ELSE IF f = "status" /\ "subcontractor_id" \in DOMAIN body THEN "assigned"
        ELSE row[f]]

\* UPDATE ... SET: the row with the columns of the body overwritten
applyPatch(row, body) ==
    [f \in DOMAIN row |-> IF f \in DOMAIN body THEN body[f] ELSE row[f]]

\* Column constraints that would also keep a completed job completed
jobsRowValidOnceCompleted(r, row) ==
    /\ row.status \in Statuses
    /\ row.job_id # NULL
    /\ \A o \in DOMAIN db_jobs \ {r} : db_jobs[o].job_id # row.job_id
    /\ row.subcontractor_id # NULL => row.subcontractor_id \in DOMAIN db_subs
    /\ db_jobs[r].status = "completed" => row.status = "completed"

\* Column constraints of table jobs on an updated row of id r
jobsRowValid(r, row) ==
    /\ row.status \in Statuses
    /\ row.job_id # NULL
    /\ \A o \in DOMAIN db_jobs \ {r} : db_jobs[o].job_id # row.job_id
    /\ row.subcontractor_id # NULL => row.subcontractor_id \in DOMAIN db_subs

\* user_is_admin(): the caller's profile has role 'admin'
user_is_admin(who) == who = "admin"

\* A job_updates table whose job reference lacks ON DELETE CASCADE
keepAll(log, r) == log

\* job_updates rows that survive ON DELETE CASCADE of jobs row r
cascade(log, r) == SelectSeq(log, LAMBDA u : u.job # r)

(***************************************************************************)
(* Initial state: the two jobs and three subcontractors of the mock data,  *)
(* held by the database (connected) or by the hooks alone (mock).          *)
(***************************************************************************)
mockJobs ==
    [r \in {"1", "2"} |->
        IF r = "1"
        THEN [job_id |-> "Job-ABC123", subcontractor_id |-> "1", status |-> "pending",
              materials |-> NULL, price |-> NULL, parts_cost |-> NULL,
              job_profit |-> NULL, notes |-> NULL, receipt_url |-> NULL]
        ELSE [job_id |-> "Job-DEF456", subcontractor_id |-> NULL, status |-> "assigned",
              materials |-> "New faucet, pipe fittings", price |-> "150",
              parts_cost |-> "75", job_profit |-> "75",
              notes |-> "Customer prefers chrome finish", receipt_url |-> NULL]]

mockSubcontractors ==
    [s \in {"1", "2", "3"} |-> IF s = "1" THEN "Mike Johnson"
                              ELSE IF s = "2" THEN "Lisa Davis" ELSE "Robert Chen"]

\* useState<Job | null>(null)
NoComponent == [loaded |-> FALSE]
NoOp == [op |-> "init"]
NoArgs == [fn |-> "none"]
NoRet == [returned |-> FALSE]

\* The application before its first operation
AppInit ==
    /\ isUsingMockData \in BOOLEAN
    /\ actor \in {"admin", "user"}
    /\ db_jobs = mockJobs
    /\ db_subs = mockSubcontractors
    /\ job_updates = <<>>
    /\ jobs = mockJobs
    /\ subcontractors = mockSubcontractors
    /\ pub = NoComponent
    /\ adm = NoComponent
    /\ users = [u \in {"u1"} |-> "admin"]
    /\ notifications = <<>>
    /\ opened = <<>>
    /\ admin_invitations = [i \in {} |-> NULL]
    /\ now = 0
    /\ timers = {}
    /\ last = NoOp
    /\ steps = 0

Init ==
    /\ AppInit
    /\ args = NoArgs
    /\ ret = NoRet

Step(op) ==
    /\ steps < MaxSteps
    /\ steps' = steps + 1
    /\ last' = op

(***************************************************************************)
(* PublicJobView: the subcontractor portal.                                *)
(***************************************************************************)
\* useEffect on [formData.price, formData.parts_cost]: job_profit follows them
withProfit(formData) ==
    [formData EXCEPT !.job_profit = calculateJobProfit(formData.price, formData.parts_cost)]

\* setFormData({...}) of fetchJob
formOf(data) ==
    [status |-> data.status,
     materials |-> toFormText(data.materials),
     price |-> toFormText(data.price),
     parts_cost |-> toFormText(data.parts_cost),
     job_profit |-> toFormText(data.job_profit),
     notes |-> toFormText(data.notes)]

Public_fetchJob(r) ==
    /\ steps < MaxSteps
    /\ ~isUsingMockData
    /\ r \in DOMAIN db_jobs
    /\ pub' = [loaded |-> TRUE, id |-> r, job |-> db_jobs[r],
               formData |-> withProfit(formOf(db_jobs[r]))]
    /\ Step([op |-> "Public_fetchJob", row |-> r])
    /\ UNCHANGED <<admin_invitations, now, args, ret, timers, notifications, opened, isUsingMockData, actor, db_jobs, db_subs, job_updates, jobs,
                   subcontractors, adm, users>>

\* What the subcontractor can type or select in the portal form
StatusOptions == Statuses
MaterialsInputs == {"", "PVC pipe"}
PriceInputs == {"", "75"}
PartsCostInputs == {"", "150"}
NotesInputs == {"", "Done"}

\* onChange of the portal form's inputs; "completed" is a disabled option
\* while canCompleteJob(job) is false
Public_onChange(field, value) ==
    /\ steps < MaxSteps
    /\ pub.loaded
    /\ \/ field = "status" /\ value \in StatusOptions
          /\ (value = "completed" => canCompleteJob(pub.job))
       \/ field = "materials" /\ value \in MaterialsInputs
       \/ field = "price" /\ value \in PriceInputs
       \/ field = "parts_cost" /\ value \in PartsCostInputs
       \/ field = "notes" /\ value \in NotesInputs
    /\ pub.formData[field] # value
    /\ pub' = [pub EXCEPT !.formData = withProfit([@ EXCEPT ![field] = value])]
    /\ Step([op |-> "Public_onChange", row |-> pub.id])
    /\ UNCHANGED <<admin_invitations, now, args, ret, timers, notifications, opened, isUsingMockData, actor, db_jobs, db_subs, job_updates, jobs,
                   subcontractors, adm, users>>

\* showSuccess / showError / showInfo
notification(type, text, link) == [type |-> type, text |-> text, link |-> link]

\* v?.toString() || null
orNull(v) == IF Falsy(v) THEN NULL ELSE v

\* The job_updates rows handleUpdateJob inserts: one for every key of updates
portalUpdateRecords(job, id, updates, keys) ==
    [i \in 1..Len(keys) |->
        [job |-> id, field_name |-> keys[i],
         old_value |-> orNull(job[keys[i]]),
         new_value |-> orNull(updates[keys[i]]),
         updated_by |-> "Subcontractor"]]

\* handleUpdateJob(updates); keys is Object.keys(updates) in order.  Its catch
\* shows the error and returns: the promise resolves either way, and the caller
\* goes on to show what it shows after the call (shownAfter).
handleUpdateJob(updates, keys, base, shownAfter) ==
    /\ steps < MaxSteps
    /\ pub.loaded
    /\ LET id == pub.id
           ok == id \in DOMAIN db_jobs
                 /\ jobsRowValid(id, applyPatch(db_jobs[id], wire(updates)))
           data == applyPatch(db_jobs[id], wire(updates))
       IN  IF ok
           THEN /\ db_jobs' = [db_jobs EXCEPT ![id] = data]
                /\ pub' = [pub EXCEPT !.job = data]
                /\ job_updates' = job_updates \o portalUpdateRecords(pub.job, id, updates, keys)
                /\ notifications' =
                      <<notification("success", "Job updated successfully!", NULL)>>
                         \o shownAfter
                /\ Step(base @@ [row |-> id, updates |-> updates, result |-> "ok"])
           ELSE /\ UNCHANGED <<db_jobs, pub, job_updates>>
                /\ notifications' =
                      <<notification("error", "Failed to update job. Please try again.",
                                     NULL)>> \o shownAfter
                /\ Step(base @@ [row |-> id, updates |-> updates, result |-> "error"])
    /\ UNCHANGED <<admin_invitations, now, args, ret, timers, opened, isUsingMockData, actor, db_subs, jobs, subcontractors, adm, users>>

\* const updates: UpdateJobData = {...} of handleFormSubmit
formUpdates(formData) ==
    [status |-> formData.status,
     materials |-> IF formData.materials = "" THEN UNDEFINED ELSE formData.materials,
     price |-> numOr(formData.price, UNDEFINED),
     parts_cost |-> numOr(formData.parts_cost, UNDEFINED),
     job_profit |-> numOr(formData.job_profit, UNDEFINED),
     notes |-> IF formData.notes = "" THEN UNDEFINED ELSE formData.notes]

formKeys == <<"status", "materials", "price", "parts_cost", "job_profit", "notes">>

handleFormSubmit ==
    /\ steps < MaxSteps
    /\ pub.loaded
    /\ handleUpdateJob(formUpdates(pub.formData), formKeys,
                       [op |-> "handleFormSubmit"], <<>>)

ReceiptFiles == {"receipt.pdf"}

\* How the promise of handleFileUpload settles, given whether the awaited
\* handleUpdateJob threw
settled(threw) == IF threw THEN "rejected" ELSE "resolved"

\* handleFileUpload(file), and handleFileSelect of FileUpload awaiting it:
\* handleUpdateJob never throws, so the lines after the await always run
handleFileUpload(file) ==
    /\ steps < MaxSteps
    /\ pub.loaded
    /\ LET upload == settled(FALSE)
       IN  handleUpdateJob([receipt_url |-> "https://example.com/receipts/" \o file],
                           <<"receipt_url">>,
                           [op |-> "handleFileUpload", upload |-> upload,
                            uploadSuccess |-> (upload = "resolved")],
                           IF upload = "resolved"
                           THEN <<notification("success",
                                               "Receipt uploaded successfully!", NULL)>>
                           ELSE <<notification("error",
                                     "Failed to upload receipt. Please try again.", NULL)>>)

(***************************************************************************)
(* JobView: the admin job form.                                            *)
(***************************************************************************)
Admin_fetchJob(r) ==
    /\ steps < MaxSteps
    /\ ~isUsingMockData
    /\ r \in DOMAIN db_jobs
    /\ adm' = [loaded |-> TRUE, id |-> r, job |-> db_jobs[r],
               formData |-> formOf(db_jobs[r]),
               selectedSubcontractorId |-> db_jobs[r].subcontractor_id]
    /\ Step([op |-> "Admin_fetchJob", row |-> r])
    /\ UNCHANGED <<admin_invitations, now, args, ret, timers, notifications, opened, isUsingMockData, actor, db_jobs, db_subs, job_updates, jobs,
                   subcontractors, pub, users>>

ProfitInputs == {"", "150"}

\* handleInputChange(field, value): every option and input of the form is enabled
handleInputChange(field, value) ==
    /\ steps < MaxSteps
    /\ adm.loaded
    /\ \/ field = "status" /\ value \in StatusOptions
       \/ field = "materials" /\ value \in MaterialsInputs
       \/ field = "price" /\ value \in PriceInputs
       \/ field = "parts_cost" /\ value \in PartsCostInputs
       \/ field = "job_profit" /\ value \in ProfitInputs
       \/ field = "notes" /\ value \in NotesInputs
    /\ adm.formData[field] # value
    /\ adm' = [adm EXCEPT !.formData[field] = value]
    /\ Step([op |-> "handleInputChange", row |-> adm.id])
    /\ UNCHANGED <<admin_invitations, now, args, ret, timers, notifications, opened, isUsingMockData, actor, db_jobs, db_subs, job_updates, jobs,
                   subcontractors, pub, users>>

\* onChange of the subcontractor select: "" is the option Unassigned
setSelectedSubcontractorId(value) ==
    /\ steps < MaxSteps
    /\ adm.loaded
    /\ value \in {""} \cup DOMAIN db_subs
    /\ adm.selectedSubcontractorId # value
    /\ adm' = [adm EXCEPT !.selectedSubcontractorId = value]
    /\ Step([op |-> "setSelectedSubcontractorId", row |-> adm.id])
    /\ UNCHANGED <<admin_invitations, now, args, ret, timers, notifications, opened, isUsingMockData, actor, db_jobs, db_subs, job_updates, jobs,
                   subcontractors, pub, users>>

\* const updates: any = {...} of handleSave (updated_at left out)
saveUpdates(formData, selectedSubcontractorId) ==
    [status |-> formData.status,
     materials |-> formData.materials,
     price |-> numOr(formData.price, NULL),
     parts_cost |-> numOr(formData.parts_cost, NULL),
     job_profit |-> numOr(formData.job_profit, NULL),
     notes |-> formData.notes,
     subcontractor_id |-> IF Falsy(selectedSubcontractorId) THEN NULL
                          ELSE selectedSubcontractorId]

\* job.price?.toString(): undefined for a null column
optToString(v) == IF v = NULL THEN UNDEFINED ELSE v

\* fieldsToCheck of handleSave
fieldsToCheck(job, formData, selectedSubcontractorId) ==
    << [key |-> "status", oldValue |-> job.status, newValue |-> formData.status],
       [key |-> "materials", oldValue |-> job.materials, newValue |-> formData.materials],
       [key |-> "price", oldValue |-> optToString(job.price), newValue |-> formData.price],
       [key |-> "parts_cost", oldValue |-> optToString(job.parts_cost),
        newValue |-> formData.parts_cost],
       [key |-> "job_profit", oldValue |-> optToString(job.job_profit),
        newValue |-> formData.job_profit],
       [key |-> "notes", oldValue |-> job.notes, newValue |-> formData.notes],
       [key |-> "subcontractor_id", oldValue |-> job.subcontractor_id,
        newValue |-> selectedSubcontractorId] >>

\* v || ''
orEmpty(v) == IF Falsy(v) THEN "" ELSE v

\* The job_updates rows handleSave inserts through createUpdate
saveUpdateRecords(job, id, formData, selectedSubcontractorId) ==
    LET checks == fieldsToCheck(job, formData, selectedSubcontractorId)
        changed == SelectSeq(checks, LAMBDA c : c.oldValue # c.newValue)
    IN  [i \in 1..Len(changed) |->
            [job |-> id, field_name |-> changed[i].key,
             old_value |-> orEmpty(changed[i].oldValue),
             new_value |-> orEmpty(changed[i].newValue),
             updated_by |-> "System"]]

handleSave ==
    /\ steps < MaxSteps
    /\ adm.loaded
    /\ ~isUsingMockData
    /\ LET id == adm.id
           updates == saveUpdates(adm.formData, adm.selectedSubcontractorId)
           exists == id \in DOMAIN db_jobs
           data == applyPatch(db_jobs[id], updates)
           records == saveUpdateRecords(adm.job, id, adm.formData,
                                        adm.selectedSubcontractorId)
       IN  IF exists /\ jobsRowValid(id, data)
           THEN \* the row is updated, the changed fields are logged, setJob merges
                /\ db_jobs' = [db_jobs EXCEPT ![id] = data]
                /\ job_updates' = job_updates \o records
                /\ adm' = [adm EXCEPT !.job = applyPatch(adm.job, updates)]
                /\ Step([op |-> "handleSave", row |-> id, updates |-> updates,
                         result |-> "ok"])
           ELSE IF ~exists /\ records = <<>>
           THEN \* no row matches and nothing is logged: the save reports success
                /\ adm' = [adm EXCEPT !.job = applyPatch(adm.job, updates)]
                /\ UNCHANGED <<db_jobs, job_updates>>
                /\ Step([op |-> "handleSave", row |-> id, updates |-> updates,
                         result |-> "ok"])
           ELSE \* the update, or the first createUpdate, throws
                /\ UNCHANGED <<db_jobs, job_updates, adm>>
                /\ Step([op |-> "handleSave", row |-> id, updates |-> updates,
                         result |-> "error"])
    /\ UNCHANGED <<admin_invitations, now, args, ret, timers, notifications, opened, isUsingMockData, actor, db_subs, jobs, subcontractors, pub, users>>

(***************************************************************************)
(* api/jobs.ts and the Express route PUT /api/jobs/:jobId.                 *)
(***************************************************************************)
JobIdInputs == {"Job-ABC123", "Job-XYZ789"}

\* Request bodies tried against the passthrough update
ApiBodies ==
    { [status |-> "completed"],
      [job_id |-> "Job-XYZ789"],
      [job_profit |-> "150"] }

\* supabase.from('jobs').update({...updates}).eq('job_id', jobId).select().single()
updateByJobId(jobId, updates, op) ==
    /\ steps < MaxSteps
    /\ ~isUsingMockData
    /\ LET hit == {r \in DOMAIN db_jobs : db_jobs[r].job_id = jobId}
       IN  IF hit # {} /\ \A r \in hit : jobsRowValid(r, applyPatch(db_jobs[r], wire(updates)))
           THEN LET r == CHOOSE x \in hit : TRUE
                IN  /\ db_jobs' = [db_jobs EXCEPT ![r] = applyPatch(@, wire(updates))]
                    /\ Step([op |-> op, row |-> r, updates |-> updates, result |-> "ok"])
           ELSE /\ UNCHANGED db_jobs
                /\ Step([op |-> op, row |-> "", updates |-> updates, result |-> "error"])
    /\ UNCHANGED <<admin_invitations, now, args, ret, timers, notifications, opened, isUsingMockData, actor, db_subs, job_updates, jobs, subcontractors,
                   pub, adm, users>>

updateJobById(jobId, updates) == updateByJobId(jobId, updates, "updateJobById")

PutApiJobs(jobId, body) == updateByJobId(jobId, body, "PutApiJobs")

(***************************************************************************)
(* jobUtils: phone numbers and WhatsApp links.  A phone number is the      *)
(* sequence of its characters.                                             *)
(***************************************************************************)
Digits == {"0", "1", "2", "3", "4", "5", "6", "7", "8", "9"}

\* phone.replace(/\D/g, '')
digitsOf(phone) == SelectSeq(phone, LAMBDA c : c \in Digits)

validateAndCleanPhone(phone) ==
    LET cleaned == digitsOf(phone)
    IN  [isValid |-> \/ Len(cleaned) = 10
                     \/ (Len(cleaned) = 11 /\ cleaned[1] = "1"),
         cleaned |-> cleaned,
         whatsappReady |-> IF Len(cleaned) = 10 THEN <<"1">> \o cleaned
                           ELSE IF Len(cleaned) = 11 /\ cleaned[1] = "1" THEN cleaned
                           ELSE <<>>]

\* A createWhatsAppLink that leaves eleven digits as they are
createWhatsAppLinkAsTyped(phone) ==
    LET cleanPhone == digitsOf(phone)
        whatsappPhone == IF Len(cleanPhone) = 10 THEN <<"1">> \o cleanPhone
                         ELSE cleanPhone
    IN  IF Len(whatsappPhone) # 11
        THEN [ok |-> FALSE, link |-> <<>>]
        ELSE [ok |-> TRUE, link |-> <<"https://wa.me/">> \o whatsappPhone]

\* createWhatsAppLink(phone, message): ok = FALSE stands for the thrown
\* "Invalid phone number format"; the link is https://wa.me/<digits>?text=...
createWhatsAppLink(phone) ==
    LET cleanPhone == digitsOf(phone)
        whatsappPhone ==
            IF Len(cleanPhone) = 10 THEN <<"1">> \o cleanPhone
            ELSE IF Len(cleanPhone) = 11
                 THEN IF cleanPhone[1] = "1" THEN cleanPhone
                      ELSE <<"1">> \o Tail(cleanPhone)
            ELSE cleanPhone
    IN  IF Len(whatsappPhone) # 11 \/ whatsappPhone[1] # "1"
        THEN [ok |-> FALSE, link |-> <<>>]
        ELSE [ok |-> TRUE, link |-> <<"https://wa.me/">> \o whatsappPhone]

\* The phone column of the subcontractors: the three of the mock data, and for
\* one added later a number with a foreign country digit.
phoneOf(id) ==
    IF id = "1" THEN <<"(", "5", "5", "5", ")", " ", "9", "8", "7", "-", "6", "5", "4", "3">>
    ELSE IF id = "2"
    THEN <<"(", "5", "5", "5", ")", " ", "8", "7", "6", "-", "5", "4", "3", "2">>
    ELSE IF id = "3"
    THEN <<"(", "5", "5", "5", ")", " ", "7", "6", "5", "-", "4", "3", "2", "1">>
    ELSE <<"2", "5", "5", "5", "1", "2", "3", "4", "5", "6", "7">>

(***************************************************************************)
(* useJobs: updateJob, deleteJob and the dashboard handlers calling them.  *)
(***************************************************************************)
\* { ...job, ...updates }: every key of updates overwrites, undefined included
merge(job, updates) ==
    [f \in DOMAIN job |-> IF f \in DOMAIN updates THEN updates[f] ELSE job[f]]

\* jobs.find(job => job.id === jobId) over the collection of the current render
find(collection, id) == IF id \in DOMAIN collection THEN collection[id] ELSE UNDEFINED

\* What updateJob does to the store and the list, and what it returns
updateJobOutcome(jobId, updates) ==
    IF isUsingMockData
    THEN [result |-> "ok",
          jobs |-> [r \in DOMAIN jobs |->
                       IF r = jobId THEN merge(jobs[r], updates) ELSE jobs[r]],
          db_jobs |-> db_jobs,
          returned |-> find(jobs, jobId)]
    ELSE IF /\ jobId \in DOMAIN db_jobs
            /\ jobsRowValid(jobId, applyPatch(db_jobs[jobId], wire(updates)))
    THEN LET data == applyPatch(db_jobs[jobId], wire(updates))
         IN  [result |-> "ok",
              jobs |-> [r \in DOMAIN jobs |-> IF r = jobId THEN data ELSE jobs[r]],
              db_jobs |-> [db_jobs EXCEPT ![jobId] = data],
              returned |-> data]
    ELSE [result |-> "error", jobs |-> jobs, db_jobs |-> db_jobs]

\* The status the job has where the hook keeps it, before the update
statusOf(jobId) ==
    LET held == IF isUsingMockData THEN jobs ELSE db_jobs
    IN  IF jobId \in DOMAIN held THEN held[jobId].status ELSE UNDEFINED

updateJob(jobId, updates, op) ==
    /\ steps < MaxSteps
    /\ LET out == updateJobOutcome(jobId, updates)
       IN  /\ jobs' = out.jobs
           /\ db_jobs' = out.db_jobs
           /\ IF out.result = "ok"
              THEN Step([op |-> op, row |-> jobId, updates |-> updates, result |-> "ok",
                         actor |-> actor, returned |-> out.returned,
                         was |-> statusOf(jobId)])
              ELSE Step([op |-> op, row |-> jobId, updates |-> updates,
                         result |-> "error", actor |-> actor, was |-> statusOf(jobId)])
    /\ UNCHANGED <<admin_invitations, now, args, ret, timers, notifications, opened, isUsingMockData, actor, db_subs, job_updates,
                   subcontractors, pub, adm, users>>

\* Patches handed to the hook directly
HookUpdates == { [status |-> s] : s \in Statuses }

useJobs_updateJob(jobId, updates) == updateJob(jobId, updates, "updateJob")

\* Dashboard: connectionStatus once the connection check has run
connectionStatus == IF isUsingMockData THEN "mock" ELSE "connected"

\* What window.open does with the link: a window, no window (blocked), an exception
Popups == {"opened", "blocked", "throws"}

\* sendWhatsAppMessage(phone, message) on a desktop browser: it rejects for an
\* invalid phone or an exception, and resolves true otherwise, whether or
\* not window.open returned a window.
sendWhatsAppMessage(phone, popup) ==
    IF ~validateAndCleanPhone(phone).isValid \/ ~createWhatsAppLink(phone).ok
       \/ popup = "throws"
    THEN [settled |-> "rejected", opened |-> <<>>]
    ELSE [settled |-> "resolved",
          opened |-> IF popup = "opened" THEN <<createWhatsAppLink(phone).link>>
                     ELSE <<>>]

\* The try / catch around the dispatch in handleCreateJob and handleSendWhatsApp:
\* on failure copyWhatsAppLink is tried and its link shown.
dispatchWithFallback(phone, popup, preparing, failed) ==
    LET valid == validateAndCleanPhone(phone).isValid
        sent == sendWhatsAppMessage(phone, popup)
        copied == createWhatsAppLink(phone)
        caught == IF copied.ok
                  THEN <<notification("error", "WhatsApp failed to open. Link copied",
                                      copied.link)>>
                  ELSE <<notification("error", failed, NULL)>>
        info == <<notification("info", preparing, NULL)>>
    IN  IF ~valid
        THEN [dispatch |-> "invalid_phone", shown |-> caught, opened |-> <<>>]
        ELSE IF sent.settled = "rejected"
        THEN [dispatch |-> "rejected", shown |-> info \o caught, opened |-> <<>>]
        ELSE [dispatch |-> popup,
              shown |-> info \o <<notification("success", "WhatsApp opened", NULL)>>,
              opened |-> sent.opened]

\* The try / catch around the dispatch in handleUpdateSubcontractor
dispatchAfterAssign(phone, popup) ==
    LET valid == validateAndCleanPhone(phone).isValid
        sent == sendWhatsAppMessage(phone, popup)
        caught == <<notification("error",
                      "Job assigned but WhatsApp message could not be sent", NULL)>>
    IN  IF ~valid
        THEN [dispatch |-> "invalid_phone", shown |-> caught, opened |-> <<>>]
        ELSE IF sent.settled = "rejected"
        THEN [dispatch |-> "rejected", shown |-> caught, opened |-> <<>>]
        ELSE [dispatch |-> popup,
              shown |-> <<notification("success", "WhatsApp opened", NULL)>>,
              opened |-> sent.opened]

NoDispatch == [dispatch |-> "none", shown |-> <<>>, opened |-> <<>>]

\* Dashboard: EditSubcontractorModal submits the selected subcontractor (or null)
handleUpdateSubcontractor(jobId, subcontractorId, popup) ==
    /\ steps < MaxSteps
    /\ jobId \in DOMAIN jobs
    /\ subcontractorId \in {NULL} \cup DOMAIN subcontractors
    /\ LET updates == [subcontractor_id |-> subcontractorId]
           out == updateJobOutcome(jobId, updates)
           assigned == subcontractorId # NULL
           sent == IF out.result = "ok" /\ assigned /\ connectionStatus # "mock"
                   THEN dispatchAfterAssign(phoneOf(subcontractorId), popup)
                   ELSE NoDispatch
           shown == IF out.result # "ok"
                    THEN <<notification("error", "Failed to update subcontractor", NULL)>>
                    ELSE IF assigned
                    THEN <<notification("success", "Job assigned", NULL)>> \o sent.shown
                    ELSE <<notification("success", "Job unassigned", NULL)>>
       IN  /\ sent.dispatch = "none" => popup = "opened"
           /\ jobs' = out.jobs
           /\ db_jobs' = out.db_jobs
           /\ notifications' = shown
           /\ opened' = sent.opened
           /\ Step([op |-> "handleUpdateSubcontractor", row |-> jobId,
                    updates |-> updates, result |-> out.result, actor |-> actor,
                    dispatch |-> sent.dispatch])
    /\ UNCHANGED <<admin_invitations, now, args, ret, timers, isUsingMockData, actor, db_subs, job_updates, subcontractors,
                   pub, adm, users>>

\* generateJobId(): six random characters, so any identifier can come out,
\* one already in use included
GeneratedJobIds == {"Job-GHI789", "Job-ABC123"}
CustomerNameInputs == {"", "Dana Customer"}

\* The row createJob inserts: status 'pending', the optional columns null
newJobRow(job_id, subcontractor_id) ==
    [job_id |-> job_id, subcontractor_id |-> subcontractor_id, status |-> "pending",
     materials |-> NULL, price |-> NULL, parts_cost |-> NULL, job_profit |-> NULL,
     notes |-> NULL, receipt_url |-> NULL]

\* The subcontractor embedded in the job createJob returns: the joined row,
\* or in mock mode the entry of the hook's own two mock subcontractors
embedded(subcontractor_id) ==
    IF subcontractor_id = NULL THEN NULL
    ELSE IF isUsingMockData
    THEN IF subcontractor_id \in {"1", "2"} THEN subcontractor_id ELSE NULL
    ELSE subcontractor_id

\* A validation that looks at the customer name alone
missingName(jobData) == Falsy(jobData.customer_name)

\* !jobData.customer_name || !jobData.customer_phone || ... of createJob
missingRequired(jobData) ==
    \/ Falsy(jobData.customer_name)
    \/ Falsy(jobData.customer_phone)
    \/ Falsy(jobData.customer_address)
    \/ Falsy(jobData.customer_issue)

\* createJob: validation, then generateJobId, then the insert (policy
\* "Authenticated users can create jobs"; job_id is UNIQUE, subcontractor_id a
\* foreign key).  generated is the job id drawn, called tells whether the
\* insert was sent.
createJobOutcome(jobData, job_id, id) ==
    LET row == newJobRow(job_id, jobData.subcontractor_id)
        added(coll) == [r \in DOMAIN coll \cup {id} |-> IF r = id THEN row ELSE coll[r]]
    IN  IF missingRequired(jobData)
        THEN [result |-> "error", jobs |-> jobs, db_jobs |-> db_jobs,
              generated |-> NULL, called |-> FALSE]
        ELSE IF isUsingMockData
        THEN [result |-> "ok", jobs |-> added(jobs), db_jobs |-> db_jobs,
              generated |-> job_id, called |-> FALSE]
        ELSE IF jobsRowValid(id, row)
        THEN [result |-> "ok", jobs |-> added(jobs), db_jobs |-> added(db_jobs),
              generated |-> job_id, called |-> TRUE]
        ELSE [result |-> "error", jobs |-> jobs, db_jobs |-> db_jobs,
              generated |-> job_id, called |-> TRUE]

\* The jobData the create-job modal hands over: its other required inputs
\* filled in
modalJobData(customer_name, subcontractor_id) ==
    [customer_name |-> customer_name, customer_phone |-> "(555) 123-4567",
     customer_address |-> "123 Main St", customer_issue |-> "Leaking sink",
     subcontractor_id |-> subcontractor_id]

\* jobData: CreateJobData of a direct call, a required field missing
\* (undefined), empty or filled
RequiredInputs == {UNDEFINED, "", "filled"}
JobDataInputs ==
    [customer_name : RequiredInputs, customer_phone : RequiredInputs,
     customer_address : RequiredInputs, customer_issue : RequiredInputs,
     subcontractor_id : {NULL, "1"}]

\* useJobs: createJob(jobData)
useJobs_createJob(jobData, job_id) ==
    /\ steps < MaxSteps
    /\ DOMAIN jobs \cup DOMAIN db_jobs # JobRows
    /\ LET id == CHOOSE r \in JobRows : r \notin DOMAIN jobs \cup DOMAIN db_jobs
           out == createJobOutcome(jobData, job_id, id)
       IN  /\ jobs' = out.jobs
           /\ db_jobs' = out.db_jobs
           /\ Step([op |-> "createJob", row |-> id, jobData |-> jobData,
                    result |-> out.result, actor |-> actor,
                    generated |-> out.generated, called |-> out.called])
    /\ UNCHANGED <<admin_invitations, now, args, ret, timers, notifications, opened, isUsingMockData,
                   actor, db_subs, job_updates, subcontractors, pub, adm, users>>

\* Dashboard: the create-job modal submits
handleCreateJob(customer_name, subcontractor_id, job_id, popup) ==
    /\ steps < MaxSteps
    /\ DOMAIN jobs \cup DOMAIN db_jobs # JobRows
    /\ subcontractor_id \in {NULL} \cup DOMAIN subcontractors
    /\ LET id == CHOOSE r \in JobRows : r \notin DOMAIN jobs \cup DOMAIN db_jobs
           out == createJobOutcome(modalJobData(customer_name, subcontractor_id),
                                   job_id, id)
           sent == IF /\ out.result = "ok"
                      /\ embedded(subcontractor_id) # NULL
                      /\ connectionStatus # "mock"
                   THEN dispatchWithFallback(phoneOf(subcontractor_id), popup,
                            "Preparing WhatsApp message",
                            "Job created but WhatsApp message could not be sent")
                   ELSE NoDispatch
           shown == IF out.result # "ok"
                    THEN <<notification("error", "Failed to create job", NULL)>>
                    ELSE <<notification("success", "Job created", NULL)>> \o sent.shown
       IN  /\ sent.dispatch = "none" => popup = "opened"
           /\ jobs' = out.jobs
           /\ db_jobs' = out.db_jobs
           /\ notifications' = shown
           /\ opened' = sent.opened
           /\ Step([op |-> "handleCreateJob", row |-> id, result |-> out.result,
                    actor |-> actor, dispatch |-> sent.dispatch])
    /\ UNCHANGED <<admin_invitations, now, args, ret, timers, isUsingMockData, actor, db_subs, job_updates, subcontractors,
                   pub, adm, users>>

\* Dashboard: the WhatsApp button of a job card; job.subcontractor is the
\* subcontractor embedded in the listed job
handleSendWhatsApp(jobId, popup) ==
    /\ steps < MaxSteps
    /\ jobId \in DOMAIN jobs
    /\ LET sub == jobs[jobId].subcontractor_id
           sent == IF Falsy(sub) THEN NoDispatch
                   ELSE dispatchWithFallback(phoneOf(sub), popup, "Opening WhatsApp",
                                             "Failed to send WhatsApp message")
           shown == IF Falsy(sub)
                    THEN <<notification("error", "No subcontractor assigned", NULL)>>
                    ELSE sent.shown
       IN  /\ sent.dispatch = "none" => popup = "opened"
           /\ notifications' = shown
           /\ opened' = sent.opened
           /\ Step([op |-> "handleSendWhatsApp", row |-> jobId, result |-> "ok",
                    actor |-> actor, dispatch |-> sent.dispatch])
    /\ UNCHANGED <<admin_invitations, now, args, ret, timers, isUsingMockData, actor, db_jobs, db_subs, job_updates, jobs,
                   subcontractors, pub, adm, users>>

\* DELETE on jobs passes only the policy "Admin can delete jobs"; a statement
\* that the policy filters to no row returns without an error.
deleteJob(jobId) ==
    /\ steps < MaxSteps
    /\ jobId \in DOMAIN jobs
    /\ IF isUsingMockData
       THEN UNCHANGED <<db_jobs, job_updates>>
       ELSE IF user_is_admin(actor) /\ jobId \in DOMAIN db_jobs
       THEN /\ db_jobs' = [r \in DOMAIN db_jobs \ {jobId} |-> db_jobs[r]]
            /\ job_updates' = cascade(job_updates, jobId)
       ELSE UNCHANGED <<db_jobs, job_updates>>
    /\ jobs' = [r \in DOMAIN jobs \ {jobId} |-> jobs[r]]
    /\ Step([op |-> "deleteJob", row |-> jobId, result |-> "ok", actor |-> actor])
    /\ UNCHANGED <<admin_invitations, now, args, ret, timers, notifications, opened, isUsingMockData, actor, db_subs, subcontractors, pub, adm, users>>

\* fetchJobs: the dashboard list is read again from the store
fetchJobs ==
    /\ steps < MaxSteps
    /\ ~isUsingMockData
    /\ jobs' = db_jobs
    /\ Step([op |-> "fetchJobs"])
    /\ UNCHANGED <<admin_invitations, now, args, ret, timers, notifications, opened, isUsingMockData, actor, db_jobs, db_subs, job_updates,
                   subcontractors, pub, adm, users>>

(***************************************************************************)
(* useSubcontractors.                                                      *)
(***************************************************************************)
SubNameInputs == {"", "Dana Lee"}

\* Date.now().toString() / gen_random_uuid(): an id not in use
freshId(used) == CHOOSE s \in SubIds : s \notin used

createSubcontractor(name) ==
    /\ steps < MaxSteps
    /\ DOMAIN subcontractors \cup DOMAIN db_subs # SubIds
    /\ LET id == freshId(DOMAIN subcontractors \cup DOMAIN db_subs)
           added(coll) == [s \in DOMAIN coll \cup {id} |->
                              IF s = id THEN name ELSE coll[s]]
       IN  IF name = ""
           THEN /\ UNCHANGED <<db_subs, subcontractors>>
                /\ Step([op |-> "createSubcontractor", result |-> "error",
                         actor |-> actor])
           ELSE IF isUsingMockData
           THEN /\ subcontractors' = added(subcontractors)
                /\ UNCHANGED db_subs
                /\ Step([op |-> "createSubcontractor", sub |-> id, result |-> "ok",
                         actor |-> actor])
           ELSE IF user_is_admin(actor)
           THEN /\ db_subs' = added(db_subs)
                /\ subcontractors' = added(subcontractors)
                /\ Step([op |-> "createSubcontractor", sub |-> id, result |-> "ok",
                         actor |-> actor])
           ELSE /\ UNCHANGED <<db_subs, subcontractors>>
                /\ Step([op |-> "createSubcontractor", result |-> "error",
                         actor |-> actor])
    /\ UNCHANGED <<admin_invitations, now, args, ret, timers, notifications, opened, isUsingMockData, actor, db_jobs, job_updates, jobs, pub, adm, users>>

updateSubcontractor(id, name) ==
    /\ steps < MaxSteps
    /\ id \in DOMAIN subcontractors
    /\ IF name = ""
       THEN /\ UNCHANGED <<db_subs, subcontractors>>
            /\ Step([op |-> "updateSubcontractor", sub |-> id, result |-> "error",
                     actor |-> actor])
       ELSE IF isUsingMockData
       THEN /\ subcontractors' = [subcontractors EXCEPT ![id] = name]
            /\ UNCHANGED db_subs
            /\ Step([op |-> "updateSubcontractor", sub |-> id, result |-> "ok",
                     actor |-> actor])
       ELSE IF user_is_admin(actor) /\ id \in DOMAIN db_subs
       THEN /\ db_subs' = [db_subs EXCEPT ![id] = name]
            /\ subcontractors' = [subcontractors EXCEPT ![id] = name]
            /\ Step([op |-> "updateSubcontractor", sub |-> id, result |-> "ok",
                     actor |-> actor])
       ELSE \* .single() finds no row
            /\ UNCHANGED <<db_subs, subcontractors>>
            /\ Step([op |-> "updateSubcontractor", sub |-> id, result |-> "error",
                     actor |-> actor])
    /\ UNCHANGED <<admin_invitations, now, args, ret, timers, notifications, opened, isUsingMockData, actor, db_jobs, job_updates, jobs, pub, adm, users>>

\* jobs.subcontractor_id REFERENCES subcontractors(id) without ON DELETE: a
\* subcontractor some job references cannot be deleted.
referenced(id) == \E r \in DOMAIN db_jobs : db_jobs[r].subcontractor_id = id

deleteSubcontractor(id) ==
    /\ steps < MaxSteps
    /\ id \in DOMAIN subcontractors
    /\ IF isUsingMockData
       THEN /\ subcontractors' = [s \in DOMAIN subcontractors \ {id} |-> subcontractors[s]]
            /\ UNCHANGED db_subs
            /\ Step([op |-> "deleteSubcontractor", sub |-> id, result |-> "ok",
                     actor |-> actor])
       ELSE IF user_is_admin(actor) /\ id \in DOMAIN db_subs /\ referenced(id)
       THEN /\ UNCHANGED <<db_subs, subcontractors>>
            /\ Step([op |-> "deleteSubcontractor", sub |-> id, result |-> "error",
                     actor |-> actor])
       ELSE /\ db_subs' = IF user_is_admin(actor)
                          THEN [s \in DOMAIN db_subs \ {id} |-> db_subs[s]]
                          ELSE db_subs
            /\ subcontractors' = [s \in DOMAIN subcontractors \ {id} |-> subcontractors[s]]
            /\ Step([op |-> "deleteSubcontractor", sub |-> id, result |-> "ok",
                     actor |-> actor])
    /\ UNCHANGED <<admin_invitations, now, args, ret, timers, notifications, opened, isUsingMockData, actor, db_jobs, job_updates, jobs, pub, adm, users>>

(***************************************************************************)
(* server/index.ts: the user-management endpoints.  Every handler works    *)
(* through the service-role client; none of them reads who sent the        *)
(* request, so the caller appears in the model only as an input.           *)
(***************************************************************************)
\* invited_by uuid REFERENCES auth.users(id) ON DELETE CASCADE
invitedByOthers(userId) ==
    [i \in {x \in DOMAIN admin_invitations : admin_invitations[x].invited_by # userId}
        |-> admin_invitations[i]]

Callers == {"admin", "user", "anonymous"}
RoleInputs == {"", "admin", "user", "manager"}

\* GET /api/admin/users
GetAdminUsers(caller) ==
    /\ steps < MaxSteps
    /\ Step([op |-> "GetAdminUsers", caller |-> caller, result |-> "ok",
             listed |-> DOMAIN users])
    /\ UNCHANGED <<admin_invitations, now, args, ret, timers, notifications, opened, isUsingMockData, actor, db_jobs, db_subs, job_updates, jobs,
                   subcontractors, pub, adm, users>>

\* handle_new_user(): the role of the profile the trigger inserts AFTER INSERT
\* ON auth.users, user_count counting the new user too
handle_new_user(user_count) == IF user_count <= 1 THEN "admin" ELSE "user"

\* The role of the profile of a user created with a role in its metadata:
\* the trigger decides, the metadata is not read
roleOfNewProfile(user_count, role) == handle_new_user(user_count)

\* POST /api/admin/users: auth.admin.createUser fires the trigger, which inserts
\* the profile; the endpoint's own insert into profiles then meets the primary
\* key ("duplicate key"), which it ignores
PostAdminUsers(caller, userId, role) ==
    /\ steps < MaxSteps
    /\ IF role = "" \/ userId \in DOMAIN users
       THEN /\ UNCHANGED users
            /\ Step([op |-> "PostAdminUsers", caller |-> caller, user |-> userId,
                     role |-> role, result |-> "error"])
       ELSE /\ users' = [u \in DOMAIN users \cup {userId} |->
                            IF u = userId
                            THEN roleOfNewProfile(Cardinality(DOMAIN users) + 1, role)
                            ELSE users[u]]
            /\ Step([op |-> "PostAdminUsers", caller |-> caller, user |-> userId,
                     role |-> role, result |-> "ok"])
    /\ UNCHANGED <<admin_invitations, now, args, ret, timers, notifications, opened, isUsingMockData, actor, db_jobs, db_subs, job_updates, jobs,
                   subcontractors, pub, adm>>

\* DELETE /api/admin/users/:userId
DeleteAdminUsers(caller, userId) ==
    /\ steps < MaxSteps
    /\ IF userId \in DOMAIN users
       THEN /\ users' = [u \in DOMAIN users \ {userId} |-> users[u]]
            /\ admin_invitations' = invitedByOthers(userId)
            /\ Step([op |-> "DeleteAdminUsers", caller |-> caller, user |-> userId,
                     result |-> "ok"])
       ELSE /\ UNCHANGED <<users, admin_invitations>>
            /\ Step([op |-> "DeleteAdminUsers", caller |-> caller, user |-> userId,
                     result |-> "error"])
    /\ UNCHANGED <<now, args, ret, timers, notifications, opened, isUsingMockData, actor, db_jobs, db_subs, job_updates, jobs,
                   subcontractors, pub, adm>>

\* POST /api/admin/users/:userId/reset-password
PostResetPassword(caller, userId) ==
    /\ steps < MaxSteps
    /\ Step([op |-> "PostResetPassword", caller |-> caller, user |-> userId,
             result |-> IF userId \in DOMAIN users THEN "ok" ELSE "error"])
    /\ UNCHANGED <<admin_invitations, now, args, ret, timers, notifications, opened, isUsingMockData, actor, db_jobs, db_subs, job_updates, jobs,
                   subcontractors, pub, adm, users>>

\* PUT /api/admin/users/:userId/role
PutUserRole(caller, userId, role) ==
    /\ steps < MaxSteps
    /\ IF role \notin {"admin", "user"}
       THEN /\ UNCHANGED users
            /\ Step([op |-> "PutUserRole", caller |-> caller, user |-> userId,
                     role |-> role, result |-> "error"])
       ELSE /\ users' = [u \in DOMAIN users |-> IF u = userId THEN role ELSE users[u]]
            /\ Step([op |-> "PutUserRole", caller |-> caller, user |-> userId,
                     role |-> role, result |-> "ok"])
    /\ UNCHANGED <<admin_invitations, now, args, ret, timers, notifications, opened, isUsingMockData, actor, db_jobs, db_subs, job_updates, jobs,
                   subcontractors, pub, adm>>

(***************************************************************************)
(* Admin invitations and signup: the functions of the database as the      *)
(* migrations leave them, applied in the order of their timestamps.  An    *)
(* account is identified by its email, so users are named by UserIds.      *)
(***************************************************************************)
InvitationIds == {"i1", "i2"}
InvitationDays == 7
Sessions == UserIds \cup {"anonymous"}

\* gen_random_uuid() for the id of a new row
newInvitationId == CHOOSE i \in InvitationIds : i \notin DOMAIN admin_invitations

\* gen_random_uuid()::text for the token of row i
tokenOf(i) == "token-" \o i
Tokens == {tokenOf(i) : i \in InvitationIds}

\* SELECT role FROM profiles WHERE id = auth.uid()
roleOf(session) == IF session \in DOMAIN users THEN users[session] ELSE NULL

\* WHERE used_at IS NULL AND expires_at > now()
pending(i) ==
    /\ admin_invitations[i].used_at = NULL
    /\ admin_invitations[i].expires_at > now

\* The checks every admin function starts with: the message it returns, or
\* NULL when the caller passes
refusal(session, what) ==
    IF session \notin DOMAIN users THEN "Not authenticated"
    ELSE IF roleOf(session) # "admin" THEN "Only admins can " \o what
    ELSE NULL

\* create_admin_invitation(p_invitation_email)
create_admin_invitation(session, email) ==
    /\ steps < MaxSteps
    /\ LET refused == refusal(session, "create invitations")
           base == [op |-> "create_admin_invitation", session |-> session,
                    email |-> email]
       IN  IF refused # NULL
           THEN /\ UNCHANGED admin_invitations
                /\ Step(base @@ [result |-> "refused", message |-> refused])
           ELSE IF \E i \in DOMAIN admin_invitations :
                      admin_invitations[i].email = email /\ pending(i)
           THEN /\ UNCHANGED admin_invitations
                /\ Step(base @@ [result |-> "refused",
                        message |-> "Active invitation already exists for this email"])
           \* email text UNIQUE NOT NULL: the INSERT raises unique_violation
           ELSE IF \E i \in DOMAIN admin_invitations : admin_invitations[i].email = email
           THEN /\ UNCHANGED admin_invitations
                /\ Step(base @@ [result |-> "error", message |-> "unique_violation"])
           ELSE IF DOMAIN admin_invitations = InvitationIds
           THEN /\ UNCHANGED admin_invitations
                /\ Step(base @@ [result |-> "error", message |-> "out of ids"])
           ELSE LET id == newInvitationId
                    row == [email |-> email, invited_by |-> session,
                            invitation_token |-> tokenOf(id),
                            expires_at |-> now + InvitationDays, used_at |-> NULL]
                IN  /\ admin_invitations' =
                         [i \in DOMAIN admin_invitations \cup {id} |->
                             IF i = id THEN row ELSE admin_invitations[i]]
                    /\ Step(base @@ [result |-> "ok", invitation |-> id,
                                     token |-> tokenOf(id)])
    /\ UNCHANGED <<now, args, ret, timers, notifications, opened, isUsingMockData, actor, db_jobs,
                   db_subs, job_updates, jobs, subcontractors, pub, adm, users>>

\* validate_invitation_token(p_token)
validate_invitation_token(token) ==
    /\ steps < MaxSteps
    /\ LET found == {i \in DOMAIN admin_invitations :
                        /\ admin_invitations[i].invitation_token = token
                        /\ admin_invitations[i].used_at = NULL}
           base == [op |-> "validate_invitation_token", token |-> token, result |-> "ok"]
       IN  IF found = {}
           THEN Step(base @@ [valid |-> FALSE,
                              message |-> "Invalid or expired invitation token"])
           ELSE LET v_invitation == admin_invitations[CHOOSE i \in found : TRUE]
                IN  IF v_invitation.expires_at < now
                    THEN Step(base @@ [valid |-> FALSE,
                                       message |-> "Invitation has expired"])
                    ELSE Step(base @@ [valid |-> TRUE, email |-> v_invitation.email])
    /\ UNCHANGED <<admin_invitations, now, args, ret, timers, notifications, opened, isUsingMockData,
                   actor, db_jobs, db_subs, job_updates, jobs, subcontractors, pub, adm,
                   users>>

\* revoke_invitation(p_invitation_id)
revoke_invitation(session, id) ==
    /\ steps < MaxSteps
    /\ LET refused == refusal(session, "revoke invitations")
           base == [op |-> "revoke_invitation", session |-> session, invitation |-> id]
       IN  IF refused # NULL
           THEN /\ UNCHANGED admin_invitations
                /\ Step(base @@ [result |-> "refused", message |-> refused])
           ELSE IF id \in DOMAIN admin_invitations /\ admin_invitations[id].used_at = NULL
           THEN /\ admin_invitations' =
                     [admin_invitations EXCEPT ![id].used_at = ToString(now)]
                /\ Step(base @@ [result |-> "ok",
                                 message |-> "Invitation revoked successfully"])
           ELSE /\ UNCHANGED admin_invitations
                /\ Step(base @@ [result |-> "refused",
                                 message |-> "Invitation not found or already used"])
    /\ UNCHANGED <<now, args, ret, timers, notifications, opened, isUsingMockData, actor, db_jobs,
                   db_subs, job_updates, jobs, subcontractors, pub, adm, users>>

\* get_pending_invitations()
get_pending_invitations(session) ==
    /\ steps < MaxSteps
    /\ LET refused == refusal(session, "view pending invitations")
           base == [op |-> "get_pending_invitations", session |-> session]
       IN  IF refused # NULL
           THEN Step(base @@ [result |-> "error", message |-> refused])
           ELSE Step(base @@ [result |-> "ok",
                              listed |-> {i \in DOMAIN admin_invitations : pending(i)}])
    /\ UNCHANGED <<admin_invitations, now, args, ret, timers, notifications, opened, isUsingMockData,
                   actor, db_jobs, db_subs, job_updates, jobs, subcontractors, pub, adm,
                   users>>

\* supabase.auth.signUp({ email, options: { data: { invitation_token } } })
signUp(email, token) ==
    /\ steps < MaxSteps
    /\ LET base == [op |-> "signUp", email |-> email, token |-> token]
       IN  IF email \in DOMAIN users
           THEN /\ UNCHANGED users
                /\ Step(base @@ [result |-> "error", message |-> "already registered"])
           ELSE /\ users' = [u \in DOMAIN users \cup {email} |->
                                IF u = email
                                THEN handle_new_user(Cardinality(DOMAIN users) + 1)
                                ELSE users[u]]
                /\ Step(base @@ [result |-> "ok"])
    /\ UNCHANGED <<admin_invitations, now, args, ret, timers, notifications, opened, isUsingMockData,
                   actor, db_jobs, db_subs, job_updates, jobs, subcontractors, pub, adm>>

\* Days go by
Tick(days) ==
    /\ steps < MaxSteps
    /\ now' = now + days
    /\ Step([op |-> "Tick", days |-> days])
    /\ UNCHANGED <<admin_invitations, args, ret, timers, notifications, opened, isUsingMockData,
                   actor, db_jobs, db_subs, job_updates, jobs, subcontractors, pub, adm,
                   users>>

JobsNext ==
    \/ \E r \in JobRows : Public_fetchJob(r)
    \/ \E f \in DOMAIN formOf(mockJobs["1"]) :
          \E v \in StatusOptions \cup MaterialsInputs \cup PriceInputs
                    \cup PartsCostInputs \cup NotesInputs : Public_onChange(f, v)
    \/ handleFormSubmit
    \/ \E file \in ReceiptFiles : handleFileUpload(file)
    \/ \E r \in JobRows : Admin_fetchJob(r)
    \/ \E f \in DOMAIN formOf(mockJobs["1"]) :
          \E v \in StatusOptions \cup MaterialsInputs \cup PriceInputs
                    \cup PartsCostInputs \cup ProfitInputs \cup NotesInputs :
             handleInputChange(f, v)
    \/ \E v \in {""} \cup SubIds : setSelectedSubcontractorId(v)
    \/ handleSave
    \/ \E j \in JobIdInputs, b \in ApiBodies : updateJobById(j, b)
    \/ \E j \in JobIdInputs, b \in ApiBodies : PutApiJobs(j, b)
    \/ \E r \in JobRows, u \in HookUpdates : useJobs_updateJob(r, u)
    \/ \E r \in JobRows : deleteJob(r)
    \/ fetchJobs

\* The dashboard handlers that dispatch over WhatsApp
DispatchNext ==
    \/ \E n \in CustomerNameInputs, s \in {NULL} \cup SubIds, j \in GeneratedJobIds,
          w \in Popups : handleCreateJob(n, s, j, w)
    \/ \E r \in JobRows, s \in {NULL} \cup SubIds, w \in Popups :
          handleUpdateSubcontractor(r, s, w)
    \/ \E r \in JobRows, w \in Popups : handleSendWhatsApp(r, w)
    \/ \E n \in SubNameInputs : createSubcontractor(n)

\* The hook's createJob called directly
CreateNext ==
    \/ \E d \in JobDataInputs, j \in GeneratedJobIds : useJobs_createJob(d, j)
    \/ \E r \in JobRows : deleteJob(r)

\* The dashboard operations reserved to admins
ManageNext ==
    \/ \E r \in JobRows : deleteJob(r)
    \/ fetchJobs
    \/ \E n \in SubNameInputs : createSubcontractor(n)
    \/ \E s \in SubIds, n \in SubNameInputs : updateSubcontractor(s, n)
    \/ \E s \in SubIds : deleteSubcontractor(s)

UsersNext ==
    \/ \E c \in Callers : GetAdminUsers(c)
    \/ \E c \in Callers, u \in UserIds, r \in RoleInputs : PostAdminUsers(c, u, r)
    \/ \E c \in Callers, u \in UserIds : DeleteAdminUsers(c, u)
    \/ \E c \in Callers, u \in UserIds : PostResetPassword(c, u)
    \/ \E c \in Callers, u \in UserIds, r \in RoleInputs : PutUserRole(c, u, r)
    \/ \E e \in UserIds, t \in Tokens : signUp(e, t)

\* Invitations, signup and the deletion of users
InvitesNext ==
    \/ \E c \in Sessions, e \in UserIds : create_admin_invitation(c, e)
    \/ \E t \in Tokens : validate_invitation_token(t)
    \/ \E c \in Sessions, i \in InvitationIds : revoke_invitation(c, i)
    \/ \E c \in Sessions : get_pending_invitations(c)
    \/ \E e \in UserIds, t \in Tokens : signUp(e, t)
    \/ \E c \in Callers, u \in UserIds : DeleteAdminUsers(c, u)
    \/ \E d \in {1, InvitationDays} : Tick(d)

\* The job and subcontractor operations alone
SpecJobs == Init /\ [][JobsNext]_vars

\* The dispatching dashboard handlers alone
SpecDispatch == Init /\ [][DispatchNext]_vars

\* createJob (and deleteJob, which makes room) alone
SpecCreate == Init /\ [][CreateNext]_vars

\* The admin-only dashboard operations alone
SpecManage == Init /\ [][ManageNext]_vars

\* The user-management endpoints alone
SpecUsers == Init /\ [][UsersNext]_vars

\* The invitation functions and signup alone
SpecInvites == Init /\ [][InvitesNext]_vars

(***************************************************************************)
(* The utility functions on their own: the arguments are drawn by the      *)
(* initial state and the one step applies the function to them.            *)
(***************************************************************************)
\* What applying a function leaves alone
UtilityFrame ==
    UNCHANGED <<isUsingMockData, actor, db_jobs, db_subs, job_updates, jobs,
                subcontractors, pub, adm, users, notifications, opened,
                admin_invitations, now, args, timers, last, steps>>

\* value of the price and parts-cost inputs (type="number"): a numeric text or
\* the empty text; "abc" stands for text that is no number
ProfitTexts == DOMAIN parseTable \cup {"", "abc"}

InitProfit ==
    /\ AppInit
    /\ args \in [fn : {"calculateJobProfit"}, salePrice : ProfitTexts,
                  partsCost : ProfitTexts]
    /\ ret = NoRet

\* useEffect on [formData.price, formData.parts_cost]
profitEffect ==
    /\ args.fn = "calculateJobProfit"
    /\ ~ret.returned
    /\ ret' = [returned |-> TRUE,
               value |-> calculateJobProfit(args.salePrice, args.partsCost)]
    /\ UtilityFrame

SpecProfit == InitProfit /\ [][profitEffect]_vars

\* job: any -- with a receipt_url (null, empty or not) or without the property
ReceiptValues == {NULL, "", " ", "receipt.pdf", "https://storage/receipts/1.jpg"}
JobArguments ==
    [job_id : JobIdInputs, status : Statuses, receipt_url : ReceiptValues]
        \cup [job_id : JobIdInputs, status : Statuses]

InitCanComplete ==
    /\ AppInit
    /\ args \in [fn : {"canCompleteJob"}, job : JobArguments]
    /\ ret = NoRet

\* const canComplete = canCompleteJob(job)
canComplete ==
    /\ args.fn = "canCompleteJob"
    /\ ~ret.returned
    /\ ret' = [returned |-> TRUE, value |-> canCompleteJob(args.job)]
    /\ UtilityFrame

SpecCanComplete == InitCanComplete /\ [][canComplete]_vars

\* phone: string -- a few ways of writing 9 to 13 digits
PhonePrefixes == {<<>>, <<"1">>, <<"2">>, <<"+", "1", "-">>, <<"1", "1">>}
PhoneBodies ==
    { <<"5", "5", "5", "9", "8", "7", "6", "5", "4">>,
      <<"5", "5", "5", "9", "8", "7", "6", "5", "4", "3">>,
      <<"(", "5", "5", "5", ")", " ", "9", "8", "7", "-", "6", "5", "4", "3">>,
      <<"2", "5", "5", ".", "5", "1", "2", ".", "3", "4", "5", "6">> }
PhoneSuffixes == {<<>>, <<"7">>, <<" ", "x">>}
PhoneInputs ==
    {a \o b \o c : a \in PhonePrefixes, b \in PhoneBodies, c \in PhoneSuffixes}

InitWhatsAppLink ==
    /\ AppInit
    /\ args \in [fn : {"createWhatsAppLink"}, phone : PhoneInputs]
    /\ ret = NoRet

\* const whatsappLink = createWhatsAppLink(phone, message)
whatsappLink ==
    /\ args.fn = "createWhatsAppLink"
    /\ ~ret.returned
    /\ ret' = [returned |-> TRUE, value |-> createWhatsAppLink(args.phone)]
    /\ UtilityFrame

SpecWhatsAppLink == InitWhatsAppLink /\ [][whatsappLink]_vars

(***************************************************************************)
(* Dates.  A Date is held by its local fields: year y, month m (0 to 11),  *)
(* day of the month d and the milliseconds ms since local midnight.  The   *)
(* local zone is taken to have no daylight-saving shift.                   *)
(***************************************************************************)
EndOfDay == 86399999
TimesOfDay == {0, 43200000, EndOfDay}
Years == 2023..LastYear

isLeapYear(y) == (y % 4 = 0 /\ y % 100 # 0) \/ y % 400 = 0

daysInMonth(y, m) ==
    IF m = 1 THEN (IF isLeapYear(y) THEN 29 ELSE 28)
    ELSE IF m \in {3, 5, 8, 10} THEN 30 ELSE 31

\* MakeDay of ECMAScript: the calendar day that year, month and day of the
\* month denote, months and days beyond their range carrying over
RECURSIVE MakeDay(_, _, _)
MakeDay(y, m, d) ==
    IF m < 0 THEN MakeDay(y - 1, m + 12, d)
    ELSE IF m > 11 THEN MakeDay(y + 1, m - 12, d)
    ELSE IF d < 1
         THEN LET py == IF m = 0 THEN y - 1 ELSE y
                  pm == IF m = 0 THEN 11 ELSE m - 1
              IN  MakeDay(py, pm, d + daysInMonth(py, pm))
    ELSE IF d > daysInMonth(y, m)
         THEN MakeDay(IF m = 11 THEN y + 1 ELSE y, IF m = 11 THEN 0 ELSE m + 1,
                      d - daysInMonth(y, m))
    ELSE [y |-> y, m |-> m, d |-> d]

\* Date.prototype.setDate / setMonth / setHours
setDate(date, d) == MakeDay(date.y, date.m, d) @@ [ms |-> date.ms]
setMonth(date, m) == MakeDay(date.y, m, date.d) @@ [ms |-> date.ms]
setHours(date, ms) == [date EXCEPT !.ms = ms]

\* Days from 1 January 2023, a Sunday, to the day of the date
RECURSIVE daysBeforeMonth(_, _)
daysBeforeMonth(y, m) ==
    IF m = 0 THEN 0 ELSE daysBeforeMonth(y, m - 1) + daysInMonth(y, m - 1)

daysBeforeYear(y) ==
    IF y >= 2023
    THEN 365 * (y - 2023) + Cardinality({k \in 2023..(y - 1) : isLeapYear(k)})
    ELSE 0 - (365 * (2023 - y) + Cardinality({k \in y..2022 : isLeapYear(k)}))

dayNumber(date) == daysBeforeYear(date.y) + daysBeforeMonth(date.y, date.m) + date.d - 1

\* Date.prototype.getDay: 0 = Sunday ... 6 = Saturday
getDay(date) == dayNumber(date) % 7

\* a >= b of two Dates: the comparison of their time values
atOrAfter(a, b) ==
    \/ dayNumber(a) > dayNumber(b)
    \/ dayNumber(a) = dayNumber(b) /\ a.ms >= b.ms

\* Days to go back from a weekday as if the week never wrapped
daysToTuesdayUnwrapped(dayOfWeek) == dayOfWeek - 2

\* daysToTuesday of getWeekBoundaries
daysToTuesday(dayOfWeek) ==
    IF dayOfWeek = 0 THEN 5
    ELSE IF dayOfWeek = 1 THEN 6
    ELSE dayOfWeek - 2

\* getWeekBoundaries(date)
getWeekBoundaries(date) ==
    LET weekStart == setHours(setDate(date, date.d - daysToTuesday(getDay(date))), 0)
        weekEnd == setHours(setDate(weekStart, weekStart.d + 6), EndOfDay)
    IN  [weekStart |-> weekStart, weekEnd |-> weekEnd]

\* Date.prototype.toDateString
toDateString(date) == <<date.y, date.m, date.d>>

\* matchesDate of filteredJobs for a non-empty dateFilter
matchesDate(dateFilter, jobDate, today) ==
    LET yesterday == setDate(today, today.d - 1)
        current == getWeekBoundaries(today)
        lastWeek == getWeekBoundaries(setDate(today, today.d - 7))
        nextWeek == getWeekBoundaries(setDate(today, today.d + 7))
        monthAgo == setMonth(today, today.m - 1)
        within(week) == /\ atOrAfter(jobDate, week.weekStart)
                        /\ atOrAfter(week.weekEnd, jobDate)
    IN  CASE dateFilter = "today" -> toDateString(jobDate) = toDateString(today)
          [] dateFilter = "yesterday" -> toDateString(jobDate) = toDateString(yesterday)
          [] dateFilter = "this_week" -> within(current)
          [] dateFilter = "last_week" -> within(lastWeek)
          [] dateFilter = "next_week" -> within(nextWeek)
          [] dateFilter = "month" -> atOrAfter(jobDate, monthAgo)
          [] OTHER -> TRUE

\* Every date of the years of the model, at three times of the day
Dates ==
    {[y |-> y, m |-> m, d |-> d, ms |-> ms] :
        y \in Years, m \in 0..11, d \in 1..31, ms \in TimesOfDay}
Calendar == {date \in Dates : date.d <= daysInMonth(date.y, date.m)}

InitWeek ==
    /\ AppInit
    /\ args \in [fn : {"getWeekBoundaries"}, date : Calendar]
    /\ ret = NoRet

\* const { weekStart, weekEnd } = getWeekBoundaries(today)
weekBoundaries ==
    /\ args.fn = "getWeekBoundaries"
    /\ ~ret.returned
    /\ ret' = [returned |-> TRUE, value |-> getWeekBoundaries(args.date)]
    /\ UtilityFrame

SpecWeek == InitWeek /\ [][weekBoundaries]_vars

\* new Date(): around the ends of the months; created_at: up to MaxAge days
\* before it, at midnight or at the same time of the day
Todays == {date \in Calendar : date.d \in {1, 2, 15, 28, 29, 30, 31}}
createdBefore(today) ==
    {setHours(setDate(today, today.d - age), ms) :
        age \in 0..MaxAge, ms \in {0, today.ms}}

InitDateFilter ==
    /\ AppInit
    /\ \E today \in Todays, dateFilter \in {"month"} :
          args \in [fn : {"matchesDate"}, dateFilter : {dateFilter}, today : {today},
                    created_at : createdBefore(today)]
    /\ ret = NoRet

\* jobs.filter(job => ...): the date part, for one job
dateFilterApplied ==
    /\ args.fn = "matchesDate"
    /\ ~ret.returned
    /\ ret' = [returned |-> TRUE,
               value |-> matchesDate(args.dateFilter, args.created_at, args.today)]
    /\ UtilityFrame

SpecDateFilter == InitDateFilter /\ [][dateFilterApplied]_vars

(***************************************************************************)
(* Dashboard: the filtered view.  Texts that are searched are held as      *)
(* sequences of characters.                                                *)
(***************************************************************************)
UpperCase == <<"A", "B", "C", "D", "E", "F", "G", "H", "I", "J", "K", "L", "M", "N", "O", "P", "Q", "R", "S", "T", "U", "V", "W", "X", "Y", "Z">>
LowerCase == <<"a", "b", "c", "d", "e", "f", "g", "h", "i", "j", "k", "l", "m", "n", "o", "p", "q", "r", "s", "t", "u", "v", "w", "x", "y", "z">>

\* String.prototype.toLowerCase
toLowerCase(text) ==
    [i \in 1..Len(text) |->
        IF \E k \in 1..Len(UpperCase) : UpperCase[k] = text[i]
        THEN LowerCase[CHOOSE k \in 1..Len(UpperCase) : UpperCase[k] = text[i]]
        ELSE text[i]]

\* String.prototype.includes
includes(text, part) ==
    \E i \in 0..(Len(text) - Len(part)) : SubSeq(text, i + 1, i + Len(part)) = part

\* matchesSearch of filteredJobs
matchesSearch(job, searchTerm) ==
    \/ includes(toLowerCase(job.customer_name), toLowerCase(searchTerm))
    \/ includes(toLowerCase(job.job_id), toLowerCase(searchTerm))
    \/ includes(job.customer_phone, searchTerm)
    \/ includes(toLowerCase(job.customer_address), toLowerCase(searchTerm))

\* A filter that lets a job through as soon as one of its parts matches
matchesAnyFilter(job, f) ==
    \/ matchesSearch(job, f.searchTerm)
    \/ f.statusFilter = "" \/ job.status = f.statusFilter
    \/ f.subcontractorFilter = "" \/ job.subcontractor_id = f.subcontractorFilter
    \/ f.regionFilter = "" \/ job.region = f.regionFilter
    \/ f.dateFilter = "" \/ matchesDate(f.dateFilter, job.created_at, f.today)

\* The callback of jobs.filter: f holds the five filters and today = new Date()
matchesFilters(job, f) ==
    /\ matchesSearch(job, f.searchTerm)
    /\ f.statusFilter = "" \/ job.status = f.statusFilter
    /\ f.subcontractorFilter = "" \/ job.subcontractor_id = f.subcontractorFilter
    /\ f.regionFilter = "" \/ job.region = f.regionFilter
    /\ f.dateFilter = "" \/ matchesDate(f.dateFilter, job.created_at, f.today)

\* const filteredJobs = jobs.filter(job => ...)
filteredJobs(list, f) == SelectSeq(list, LAMBDA job : matchesFilters(job, f))

\* new Date() of the render, and three listed jobs: the two of the mock data
\* (created now and a day before) and one created forty days before, with
\* no region and an unformatted phone
FilterToday == [y |-> 2024, m |-> 2, d |-> 5, ms |-> 43200000]
listedJob(r) ==
    IF r = "1"
    THEN [id |-> "1", job_id |-> <<"J", "o", "b", "-", "A", "B", "C", "1", "2", "3">>, customer_name |-> <<"J", "o", "h", "n", " ", "S", "m", "i", "t", "h">>,
          customer_phone |-> <<"(", "5", "5", "5", ")", " ", "1", "2", "3", "-", "4", "5", "6", "7">>,
          customer_address |-> <<"1", "2", "3", " ", "M", "a", "i", "n", " ", "S", "t">>,
          status |-> "pending", subcontractor_id |-> "1", region |-> "Downtown",
          created_at |-> FilterToday]
    ELSE IF r = "2"
    THEN [id |-> "2", job_id |-> <<"J", "o", "b", "-", "D", "E", "F", "4", "5", "6">>, customer_name |-> <<"S", "a", "r", "a", "h", " ", "W", "i", "l", "s", "o", "n">>,
          customer_phone |-> <<"(", "5", "5", "5", ")", " ", "2", "3", "4", "-", "5", "6", "7", "8">>,
          customer_address |-> <<"4", "5", "6", " ", "O", "a", "k", " ", "A", "v", "e">>,
          status |-> "assigned", subcontractor_id |-> NULL, region |-> "Northside",
          created_at |-> setDate(FilterToday, FilterToday.d - 1)]
    ELSE [id |-> "3", job_id |-> <<"J", "o", "b", "-", "G", "H", "I", "7", "8", "9">>, customer_name |-> <<"A", "n", "n", " ", "L", "e", "e">>,
          customer_phone |-> <<"5", "5", "5", "3", "4", "5", "6", "7", "8", "9">>,
          customer_address |-> <<"9", " ", "E", "l", "m", " ", "R", "d">>,
          status |-> "pending", subcontractor_id |-> "2", region |-> NULL,
          created_at |-> setDate(FilterToday, FilterToday.d - 40)]

JobLists ==
    { <<listedJob("1"), listedJob("2"), listedJob("3")>>,
      <<listedJob("3"), listedJob("1")>>,
      <<listedJob("2")>> }
SearchTerms ==
    { <<>>, <<"j", "o", "h", "n">>, <<"5", "5", "5", "1", "2", "3", "4", "5", "6", "7">>, <<"(", "5", "5", "5", ")">>, <<"O", "A", "K">>, <<"a", "b", "c", "1">>, <<"z", "z", "z">> }
FilterInputs ==
    [searchTerm : SearchTerms, statusFilter : {"", "pending", "assigned"},
     subcontractorFilter : {"", "1"}, regionFilter : {"", "Downtown"},
     dateFilter : {"", "today", "month"}, today : {FilterToday}]

InitFilter ==
    /\ AppInit
    /\ args \in [fn : {"filteredJobs"}, jobs : JobLists, filters : FilterInputs]
    /\ ret = NoRet

\* The render of the dashboard computes the view
renderFilteredJobs ==
    /\ args.fn = "filteredJobs"
    /\ ~ret.returned
    /\ ret' = [returned |-> TRUE, value |-> filteredJobs(args.jobs, args.filters)]
    /\ UtilityFrame

SpecFilter == InitFilter /\ [][renderFilteredJobs]_vars

(***************************************************************************)
(* Two clients on the connected database: the subcontractor portal and the *)
(* admin job form have each fetched a job and hold their own snapshot and  *)
(* their own form, in which the status may have been changed.              *)
(***************************************************************************)
\* The portal after fetchJob(r) and at most one change of the status select
portalClients ==
    UNION { { [loaded |-> TRUE, id |-> r, job |-> mockJobs[r],
               formData |-> withProfit([formOf(mockJobs[r]) EXCEPT !.status = s])] :
                 s \in {t \in StatusOptions :
                           t = "completed" => canCompleteJob(mockJobs[r])} } :
            r \in DOMAIN mockJobs }

\* The admin form after fetchJob(r) and at most one change of the status select
adminClients ==
    { [loaded |-> TRUE, id |-> r, job |-> mockJobs[r],
       formData |-> [formOf(mockJobs[r]) EXCEPT !.status = s],
       selectedSubcontractorId |-> mockJobs[r].subcontractor_id] :
         r \in DOMAIN mockJobs, s \in StatusOptions }

InitTwoClients ==
    /\ isUsingMockData = FALSE
    /\ actor \in {"admin", "user"}
    /\ db_jobs = mockJobs
    /\ db_subs = mockSubcontractors
    /\ job_updates = <<>>
    /\ jobs = mockJobs
    /\ subcontractors = mockSubcontractors
    /\ pub \in portalClients
    /\ adm \in adminClients
    /\ users = [u \in {"u1"} |-> "admin"]
    /\ notifications = <<>>
    /\ opened = <<>>
    /\ admin_invitations = [i \in {} |-> NULL]
    /\ now = 0
    /\ timers = {}
    /\ args = NoArgs
    /\ ret = NoRet
    /\ last = NoOp
    /\ steps = 0

TwoClientsNext ==
    \/ \E r \in JobRows : Public_fetchJob(r)
    \/ \E v \in StatusOptions : Public_onChange("status", v)
    \/ handleFormSubmit
    \/ \E file \in ReceiptFiles : handleFileUpload(file)
    \/ \E r \in JobRows : Admin_fetchJob(r)
    \/ \E v \in StatusOptions : handleInputChange("status", v)
    \/ handleSave

SpecTwoClients == InitTwoClients /\ [][TwoClientsNext]_vars

(***************************************************************************)
(* useNotification: the list of notifications, shown by showNotification,  *)
(* removed by removeNotification or by the timer of those shown with a     *)
(* positive duration.                                                      *)
(***************************************************************************)
\* Math.random().toString(36).substr(2, 9): a fresh id for every call
idOf(k) == "n" \o ToString(k)
NotificationIds == { idOf(k) : k \in 1..MaxSteps }

NotificationTypes == {"success", "error", "info"}
\* The duration arguments, in milliseconds: <<>> is an omitted argument
Durations == {<<>>, <<0>>, <<5000>>}
\* duration = 4000: the default of the parameter
durationOr4000(duration) == IF duration = <<>> THEN 4000 ELSE duration[1]

\* A filter that drops the notification and all those shown before it
withoutUpTo(list, id) ==
    LET at == { i \in 1..Len(list) : list[i].id = id }
    IN  IF at = {} THEN list
        ELSE SubSeq(list, (CHOOSE i \in at : TRUE) + 1, Len(list))

\* prev.filter(n => n.id !== id)
without(list, id) == SelectSeq(list, LAMBDA n : n.id # id)

showNotification(message, type, duration) ==
    /\ steps < MaxSteps
    /\ LET id == idOf(steps + 1)
           shown == [id |-> id, message |-> message, type |-> type,
                     duration |-> durationOr4000(duration)]
       IN  /\ notifications' = Append(notifications, shown)
           /\ timers' = IF shown.duration > 0 THEN timers \cup {id} ELSE timers
           /\ Step([op |-> "showNotification", id |-> id])
    /\ UNCHANGED <<isUsingMockData, actor, db_jobs, db_subs, job_updates, jobs,
                   subcontractors, pub, adm, users, opened, admin_invitations, now,
                   args, ret>>

\* The callback of setTimeout runs
timeout(id) ==
    /\ id \in timers
    /\ notifications' = without(notifications, id)
    /\ timers' = timers \ {id}
    /\ last' = [op |-> "timeout", id |-> id]
    /\ UNCHANGED <<isUsingMockData, actor, db_jobs, db_subs, job_updates, jobs,
                   subcontractors, pub, adm, users, opened, admin_invitations, now,
                   args, ret, steps>>

removeNotification(id) ==
    /\ steps < MaxSteps
    /\ notifications' = without(notifications, id)
    /\ Step([op |-> "removeNotification", id |-> id])
    /\ UNCHANGED <<isUsingMockData, actor, db_jobs, db_subs, job_updates, jobs,
                   subcontractors, pub, adm, users, opened, admin_invitations, now,
                   args, ret, timers>>

NotificationsNext ==
    \/ \E type \in NotificationTypes, duration \in Durations :
          showNotification("message", type, duration)
    \/ \E id \in NotificationIds : timeout(id)
    \/ \E id \in NotificationIds : removeNotification(id)

SpecNotifications == Init /\ [][NotificationsNext]_vars

\* The browser runs the callback of every timer that is due
SpecNotificationsFair ==
    SpecNotifications /\ \A id \in NotificationIds : WF_vars(timeout(id))

\* Every operation of the application
Next ==
    \/ JobsNext \/ DispatchNext \/ CreateNext \/ ManageNext \/ UsersNext
    \/ InvitesNext \/ NotificationsNext

Spec == Init /\ [][Next]_vars

(***************************************************************************)
(* Properties.                                                             *)
(***************************************************************************)
\* The collection that holds the jobs: the table, or the hook's list when
\* no backend is configured.
storedJobs == IF isUsingMockData THEN jobs ELSE db_jobs

\* What an operation that ran reports about itself
has(op, key) == key \in DOMAIN op
setsCompleted(op) ==
    /\ has(op, "updates")
    /\ "status" \in DOMAIN op.updates
    /\ op.updates.status = "completed"

\* C1: in every reachable state a stored job whose status is 'completed' has
\* a receipt_url that is neither null nor the empty string.
C1_CompletedHasReceipt ==
    \A r \in DOMAIN storedJobs :
        storedJobs[r].status = "completed" => canCompleteJob(storedJobs[r])

\* C2: an update that sets status to 'completed' on a job without a receipt is
\* rejected by the update operation, leaving the job and the audit log as they were.
C2_CompletionWithoutReceiptRejected ==
    [][ ( /\ setsCompleted(last')
          /\ last'.row \in DOMAIN storedJobs
          /\ ~canCompleteJob(storedJobs[last'.row]) )
        => ( /\ last'.result = "error"
             /\ storedJobs' = storedJobs
             /\ job_updates' = job_updates ) ]_vars

\* A numeric column as a number, a missing value counting as 0
amount(v) == IF v = NULL THEN 0 ELSE parseFloat(v)
profitOfInputs(row) ==
    IF amount(row.price) - amount(row.parts_cost) >= 0
    THEN amount(row.price) - amount(row.parts_cost)
    ELSE 0

\* C3: after a save through the portal form or the admin form the stored
\* job_profit equals max(0, price - parts_cost) of the stored price and parts_cost.
C3_ProfitMatchesInputs ==
    [][ ( /\ last'.op \in {"handleFormSubmit", "handleSave"}
          /\ last'.result = "ok"
          /\ last'.row \in DOMAIN db_jobs' )
        => amount(db_jobs'[last'.row].job_profit) = profitOfInputs(db_jobs'[last'.row])
      ]_vars

\* The collection that holds the subcontractors
storedSubs == IF isUsingMockData THEN subcontractors ELSE db_subs

\* C4: after a subcontractor is deleted successfully (it is gone from the
\* collection that held it), every job that was assigned to it still exists and
\* has subcontractor_id = null.
C4_DeleteSubcontractorUnassigns ==
    [][ ( /\ last'.op = "deleteSubcontractor" /\ last'.result = "ok"
          /\ last'.sub \in DOMAIN storedSubs /\ last'.sub \notin DOMAIN storedSubs' )
        => \A r \in DOMAIN storedJobs :
              storedJobs[r].subcontractor_id = last'.sub
              => (r \in DOMAIN storedJobs' /\ storedJobs'[r].subcontractor_id = NULL)
      ]_vars

\* C5: deleting a job and creating, updating or deleting a subcontractor change
\* the job and subcontractor collections only when the acting user is an admin.
C5_OnlyAdminMutates ==
    [][ ( /\ last'.op \in {"deleteJob", "createSubcontractor",
                           "updateSubcontractor", "deleteSubcontractor"}
          /\ ~user_is_admin(last'.actor) )
        => ( /\ jobs' = jobs /\ subcontractors' = subcontractors
             /\ db_jobs' = db_jobs /\ db_subs' = db_subs ) ]_vars

\* C6: a user-management request from a caller who is not an authenticated
\* admin creates, deletes or changes no user.
C6_UserEndpointsAdminOnly ==
    [][ (has(last', "caller") /\ last'.caller # "admin") => users' = users ]_vars

\* C7: no update changes the job_id of a job.
C7_JobIdImmutable ==
    [][ \A r \in DOMAIN storedJobs \cap DOMAIN storedJobs' :
           storedJobs'[r].job_id = storedJobs[r].job_id ]_vars

\* The form as it was loaded, nothing typed into it
portalUnmodified == pub.loaded /\ pub.formData = withProfit(formOf(pub.job))
adminUnmodified ==
    /\ adm.loaded
    /\ adm.formData = formOf(adm.job)
    /\ adm.selectedSubcontractorId = adm.job.subcontractor_id

\* C8: a save whose patch equals the job's current values (the form submitted
\* as loaded, the stored row left as it was) appends no audit record.
C8_NoOpSaveAppendsNothing ==
    [][ ( /\ \/ last'.op = "handleFormSubmit" /\ portalUnmodified
             \/ last'.op = "handleSave" /\ adminUnmodified
          /\ last'.result = "ok"
          /\ db_jobs' = db_jobs )
        => job_updates' = job_updates ]_vars

\* The records a step appended
appended == SubSeq(job_updates', Len(job_updates) + 1, Len(job_updates'))
asText(v) == IF Falsy(v) THEN "" ELSE v

\* C9: every audit record a save appends names a field whose stored value the
\* save changed, with the stored value before as old_value and after as new_value.
C9_RecordsMatchChanges ==
    [][ last'.op \in {"handleFormSubmit", "handleSave", "handleFileUpload"}
        => \A i \in 1..Len(appended) :
              LET u == appended[i]
              IN  /\ db_jobs[u.job][u.field_name] # db_jobs'[u.job][u.field_name]
                  /\ asText(u.old_value) = asText(db_jobs[u.job][u.field_name])
                  /\ asText(u.new_value) = asText(db_jobs'[u.job][u.field_name]) ]_vars

IsPrefix(s, t) == Len(s) <= Len(t) /\ SubSeq(t, 1, Len(s)) = s

dispatchFailed(op) ==
    has(op, "dispatch") /\ op.dispatch \in {"blocked", "rejected", "invalid_phone"}
shows(type, text) ==
    \E i \in 1..Len(notifications') :
        notifications'[i].type = type /\ notifications'[i].text = text

\* C11: when creating or assigning a job succeeds and the WhatsApp dispatch
\* after it fails, the job keeps its assignment and the failure is shown as an
\* error notification of its own, never as a failed creation or update.
C11_DispatchFailureReportedApart ==
    [][ ( /\ last'.op \in {"handleCreateJob", "handleUpdateSubcontractor"}
          /\ last'.result = "ok"
          /\ dispatchFailed(last') )
        => ( /\ last'.row \in DOMAIN jobs'
             /\ jobs'[last'.row].subcontractor_id # NULL
             /\ ~shows("error", "Failed to create job")
             /\ ~shows("error", "Failed to update subcontractor")
             /\ \E i \in 1..Len(notifications') : notifications'[i].type = "error" )
      ]_vars

\* C12: a dispatch whose link could not be opened (window blocked, or send
\* rejected) hands the link back in a notification and is not reported as sent.
C12_UnopenedLinkHandedBack ==
    [][ (has(last', "dispatch") /\ last'.dispatch \in {"blocked", "rejected"})
        => ( /\ \E i \in 1..Len(notifications') : notifications'[i].link # NULL
             /\ ~shows("success", "WhatsApp opened") ) ]_vars

\* C15: assigning, reassigning or unassigning a subcontractor from the
\* dashboard changes no stored field of any job but the subcontractor_id of
\* the job it was asked for.
C15_AssignmentChangesOnlyTheReference ==
    [][ last'.op = "handleUpdateSubcontractor"
        => /\ DOMAIN storedJobs' = DOMAIN storedJobs
           /\ \A r \in DOMAIN storedJobs :
                 \A f \in DOMAIN storedJobs[r] :
                    (r # last'.row \/ f # "subcontractor_id")
                    => storedJobs'[r][f] = storedJobs[r][f] ]_vars

\* Job '2', status 'assigned' and without a subcontractor, has been given one
\* from the dashboard, in the store.
C15_Witness ==
    /\ last.op = "handleUpdateSubcontractor" /\ last.result = "ok"
    /\ ~isUsingMockData
    /\ last.row = "2"
    /\ db_jobs["2"].subcontractor_id # NULL
    /\ db_jobs["2"].status = "assigned"

used(i) == i \in DOMAIN admin_invitations /\ admin_invitations[i].used_at # NULL

C14_NonCompletingUpdateSucceeds ==
    [][ ( /\ last'.op \in {"handleFormSubmit", "updateJob"}
          /\ last'.updates.status \in Statuses \ {"completed"}
          /\ last'.row \in DOMAIN db_jobs
          /\ last'.op = "updateJob" => last'.row \in DOMAIN storedJobs )
        => /\ last'.result = "ok"
           /\ IF last'.op = "updateJob"
              THEN storedJobs'[last'.row].status = last'.updates.status
              ELSE db_jobs'[last'.row].status = last'.updates.status ]_vars

C14_Witness ==
    /\ last.op = "updateJob"
    /\ last.result = "ok"
    /\ ~isUsingMockData
    /\ last.was \in {"completed", "cancelled"}
    /\ last.updates.status \in {"pending", "cancelled"}
    /\ last.updates.status # last.was
    /\ db_jobs[last.row].status = last.updates.status

\* The amount a text of the inputs stands for: its number, 0 if it has none
means(text, cents) ==
    \/ text \in {numToString(cents), toFixed2(cents)}
    \/ cents = 0 /\ text \in {"", "abc"}

\* C16: for every sale price and parts cost (amounts in cents, empty and
\* non-numeric text counting as 0) the computed profit is the difference,
\* floored at 0, written with two decimals; it is never negative.
C16_ProfitIsFlooredDifference ==
    (args.fn = "calculateJobProfit" /\ ret.returned) =>
        /\ \E sale, parts \in Amounts :
              /\ means(args.salePrice, sale)
              /\ means(args.partsCost, parts)
              /\ ret.value = toFixed2(IF sale >= parts THEN sale - parts ELSE 0)
        /\ \E n \in Amounts, d \in Amounts : ret.value = toFixed2(n - d) /\ n >= d

C16_Witness ==
    /\ args.fn = "calculateJobProfit"
    /\ ret.returned
    /\ args.salePrice = "0.05"
    /\ args.partsCost = "1.05"
    /\ ret.value = "0.00"

\* C17: canCompleteJob answers true exactly when the job has a receipt_url that
\* is neither null nor empty: false for null, for '' and for a job that carries
\* no receipt_url at all, true for every non-empty one.
C17_CanCompleteIffReceipt ==
    (args.fn = "canCompleteJob" /\ ret.returned) =>
        (ret.value <=> ( /\ "receipt_url" \in DOMAIN args.job
                         /\ args.job.receipt_url \notin {NULL, ""} ))

\* The digits a link carries after https://wa.me/
numberIn(link) == Tail(link)

\* C18: createWhatsAppLink keeps the digits of the phone only; ten digits get
\* a leading 1, eleven digits starting with 1 stay as they are, eleven digits
\* starting otherwise have their first digit replaced by 1, any other count
\* fails as an invalid phone; a returned link carries exactly eleven digits,
\* the first of them 1.
C18_LinkCarriesUsNumber ==
    (args.fn = "createWhatsAppLink" /\ ret.returned) =>
        LET d == SelectSeq(args.phone, LAMBDA c : c \in Digits)
            r == ret.value
        IN  /\ Len(d) = 10 => r.ok /\ numberIn(r.link) = <<"1">> \o d
            /\ (Len(d) = 11 /\ d[1] = "1") => r.ok /\ numberIn(r.link) = d
            /\ (Len(d) = 11 /\ d[1] # "1")
                  => r.ok /\ numberIn(r.link) = <<"1">> \o SubSeq(d, 2, 11)
            /\ Len(d) \notin {10, 11} => ~r.ok
            /\ r.ok => /\ Len(numberIn(r.link)) = 11
                       /\ numberIn(r.link)[1] = "1"
                       /\ \A i \in 1..11 : numberIn(r.link)[i] \in Digits

C18_Witness ==
    /\ args.fn = "createWhatsAppLink"
    /\ ret.returned
    /\ args.phone = <<"2", "5", "5", "5", "9", "8", "7", "6", "5", "4", "3">>
    /\ ret.value.ok
    /\ ret.value.link = <<"https://wa.me/", "1", "5", "5", "5", "9", "8", "7", "6", "5",
                          "4", "3">>

\* C19: for every reference date, of every weekday, weekStart is a Tuesday at
\* 00:00:00.000 lying 0 to 6 days on or before the reference date, weekEnd is
\* the Monday six days after weekStart at 23:59:59.999, and the reference date
\* lies inside [weekStart, weekEnd].
C19_WeekRunsTuesdayToMonday ==
    (args.fn = "getWeekBoundaries" /\ ret.returned) =>
        LET weekStart == ret.value.weekStart
            weekEnd == ret.value.weekEnd
        IN  /\ dayNumber(weekStart) % 7 = 2
            /\ weekStart.ms = 0
            /\ dayNumber(args.date) - dayNumber(weekStart) \in 0..6
            /\ dayNumber(weekEnd) = dayNumber(weekStart) + 6
            /\ dayNumber(weekEnd) % 7 = 1
            /\ weekEnd.ms = EndOfDay
            /\ weekStart.d \in 1..daysInMonth(weekStart.y, weekStart.m)
            /\ weekEnd.d \in 1..daysInMonth(weekEnd.y, weekEnd.m)
            /\ atOrAfter(args.date, weekStart)
            /\ atOrAfter(weekEnd, args.date)

\* Sunday 3 March 2024: the week started on Tuesday 27 February
C19_Witness ==
    /\ args.fn = "getWeekBoundaries"
    /\ ret.returned
    /\ args.date = [y |-> 2024, m |-> 2, d |-> 3, ms |-> EndOfDay]
    /\ ret.value.weekStart = [y |-> 2024, m |-> 1, d |-> 27, ms |-> 0]
    /\ ret.value.weekEnd = [y |-> 2024, m |-> 2, d |-> 4, ms |-> EndOfDay]

\* C20: with the date filter 'month' a job matches if and only if it was
\* created within the last 30 days before now, whatever the lengths of the
\* current and the previous calendar month.
C20_MonthIsLastThirtyDays ==
    (args.fn = "matchesDate" /\ args.dateFilter = "month" /\ ret.returned) =>
        LET age == dayNumber(args.today) - dayNumber(args.created_at)
        IN  ret.value <=>
                /\ atOrAfter(args.today, args.created_at)
                /\ age < 30 \/ (age = 30 /\ args.created_at.ms >= args.today.ms)

\* What the claim calls satisfying a filter: exact equality for status,
\* subcontractor and region, the search and the date range as the view has them
satisfies(job, f) ==
    /\ f.searchTerm # <<>> => matchesSearch(job, f.searchTerm)
    /\ f.statusFilter # "" => job.status = f.statusFilter
    /\ f.subcontractorFilter # "" => job.subcontractor_id = f.subcontractorFilter
    /\ f.regionFilter # "" => job.region = f.regionFilter
    /\ f.dateFilter # "" => matchesDate(f.dateFilter, job.created_at, f.today)

allEmpty(f) ==
    /\ f.searchTerm = <<>>
    /\ f.statusFilter = ""
    /\ f.subcontractorFilter = ""
    /\ f.regionFilter = ""
    /\ f.dateFilter = ""

\* C21: the filtered view holds exactly the jobs that satisfy every non-empty
\* filter, in the order of the job list; with all filters empty it is the job
\* list itself.
C21_ViewIsJobsSatisfyingFilters ==
    (args.fn = "filteredJobs" /\ ret.returned) =>
        /\ \A i \in 1..Len(args.jobs) :
              satisfies(args.jobs[i], args.filters)
                  <=> \E k \in 1..Len(ret.value) : ret.value[k] = args.jobs[i]
        /\ ret.value = SelectSeq(args.jobs,
                LAMBDA job : \E k \in 1..Len(ret.value) : ret.value[k] = job)
        /\ allEmpty(args.filters) => ret.value = args.jobs

C21_Witness ==
    /\ args.fn = "filteredJobs"
    /\ ret.returned
    /\ Len(args.jobs) = 3
    /\ args.filters.statusFilter = "pending"
    /\ args.filters.regionFilter = ""
    /\ args.filters.subcontractorFilter = ""
    /\ args.filters.dateFilter = "month"
    /\ args.filters.searchTerm = <<>>
    /\ ret.value = <<listedJob("1")>>

\* C22: a job matches a search term if and only if the term is a
\* case-insensitive substring of its customer name, job id or address, or a
\* substring of the digits of its phone number.
C22_SearchMatchesPhoneDigits ==
    (args.fn = "filteredJobs" /\ ret.returned
        /\ allEmpty([args.filters EXCEPT !.searchTerm = <<>>])) =>
        \A i \in 1..Len(args.jobs) :
            LET job == args.jobs[i]
                term == toLowerCase(args.filters.searchTerm)
            IN  (\E k \in 1..Len(ret.value) : ret.value[k] = job)
                <=> \/ includes(toLowerCase(job.customer_name), term)
                    \/ includes(toLowerCase(job.job_id), term)
                    \/ includes(toLowerCase(job.customer_address), term)
                    \/ includes(SelectSeq(job.customer_phone, LAMBDA c : c \in Digits),
                                args.filters.searchTerm)

\* C23: createJob called with the customer name, phone, address or issue
\* missing or empty fails before a job id is generated and before any
\* persistence call, and leaves the jobs list (and the table) unchanged, in mock
\* mode as in connected mode.
C23_CreateJobValidatesFirst ==
    [][ ( /\ last'.op = "createJob"
          /\ \E k \in {"customer_name", "customer_phone", "customer_address",
                        "customer_issue"} : last'.jobData[k] \in {UNDEFINED, ""} )
        => /\ last'.result = "error"
           /\ last'.generated = NULL
           /\ ~last'.called
           /\ jobs' = jobs
           /\ db_jobs' = db_jobs ]_vars

C23_Witness ==
    /\ last.op = "createJob"
    /\ last.result = "error"
    /\ last.jobData.customer_name = "filled"
    /\ last.jobData.customer_phone = "filled"
    /\ last.jobData.customer_address = "filled"
    /\ last.jobData.customer_issue = ""
    /\ isUsingMockData
    /\ last.generated = NULL
    /\ DOMAIN jobs = {"1", "2"}

C25_UpdateJobReturnsPatchedJob ==
    [][ (last'.op = "updateJob" /\ last'.result = "ok")
        => /\ isUsingMockData => last'.row \in DOMAIN jobs
           /\ \A f \in DOMAIN last'.updates :
                 last'.returned[f] = last'.updates[f] ]_vars

\* The pending invitations addressed to an email
invitationsFor(email) ==
    {i \in DOMAIN admin_invitations : pending(i) /\ admin_invitations[i].email = email}

C27_EmailCanBeInvitedAgain ==
    [][ /\ \A i, j \in DOMAIN admin_invitations' :
              ( /\ admin_invitations'[i].email = admin_invitations'[j].email
                /\ admin_invitations'[i].used_at = NULL
                /\ admin_invitations'[j].used_at = NULL
                /\ admin_invitations'[i].expires_at > now'
                /\ admin_invitations'[j].expires_at > now' ) => i = j
        /\ ( /\ last'.op = "create_admin_invitation"
              /\ refusal(last'.session, "create invitations") = NULL
              /\ \E i \in DOMAIN admin_invitations :
                    admin_invitations[i].email = last'.email
              /\ invitationsFor(last'.email) = {} )
            => /\ last'.result = "ok"
               /\ \E i \in DOMAIN admin_invitations' \ DOMAIN admin_invitations :
                     /\ admin_invitations'[i].email = last'.email
                     /\ admin_invitations'[i].used_at = NULL
                     /\ admin_invitations'[i].expires_at > now' ]_vars

\* The audit records of one field of one job, oldest first
recordsOf(job, field) ==
    SelectSeq(job_updates, LAMBDA u : u.job = job /\ u.field_name = field)

\* An absent value, whichever way a client writes it
absentAsNull(v) == IF Falsy(v) THEN NULL ELSE v

\* C28: for each job and field the audit records form a chain under every
\* interleaving of saves of the portal and of the admin form, each holding its
\* own snapshot: the old_value of a record is the new_value of the record
\* before it, and the new_value of the last record is the stored value.
C28_AuditRecordsFormChain ==
    \A job \in DOMAIN db_jobs : \A field \in DOMAIN db_jobs[job] :
       LET records == recordsOf(job, field)
       IN  /\ \A i \in 2..Len(records) :
                 absentAsNull(records[i].old_value)
                    = absentAsNull(records[i - 1].new_value)
           /\ records # <<>> =>
                 absentAsNull(records[Len(records)].new_value)
                    = absentAsNull(db_jobs[job][field])

\* C29: a receipt upload in the portal is reported as successful (success
\* notification, resolved upload, 'Upload successful' state) only if the job's
\* receipt_url was persisted; when the job update fails the upload is reported
\* as failed and the job the portal holds is as it was.
C29_UploadSuccessMeansPersisted ==
    [][ last'.op = "handleFileUpload" =>
          LET persisted == /\ last'.row \in DOMAIN db_jobs'
                           /\ db_jobs'[last'.row].receipt_url = last'.updates.receipt_url
              reportedOk == \/ shows("success", "Receipt uploaded successfully!")
                            \/ last'.upload = "resolved"
                            \/ last'.uploadSuccess
          IN  /\ reportedOk => persisted
              /\ last'.result = "error" =>
                    /\ last'.upload = "rejected"
                    /\ ~last'.uploadSuccess
                    /\ pub'.job = pub.job ]_vars

\* The notification of that id is in the list
listedIn(list, id) == \E i \in 1..Len(list) : list[i].id = id
listed(id) == listedIn(notifications, id)
durationOf(id) ==
    notifications[CHOOSE i \in 1..Len(notifications) : notifications[i].id = id].duration

\* C30: a notification shown with a positive duration is eventually removed
\* from the list without user action; one shown with duration 0 stays until
\* removeNotification is called with its id; and removing or expiring a
\* notification leaves every other one in the list, in the same order.
C30_NotificationsExpireOrStay ==
    /\ \A id \in NotificationIds :
          (listed(id) /\ durationOf(id) > 0) ~> ~listed(id)
    /\ [][ \A id \in NotificationIds :
             (listed(id) /\ durationOf(id) = 0 /\ ~listedIn(notifications', id))
                => (last'.op = "removeNotification" /\ last'.id = id) ]_vars
    /\ [][ last'.op \in {"removeNotification", "timeout"} =>
             /\ \A i \in 1..Len(notifications) :
                   notifications[i].id # last'.id
                      => listedIn(notifications', notifications[i].id)
             /\ \A i, j \in 1..Len(notifications') :
                   i < j => \E k, l \in 1..Len(notifications) :
                               /\ k < l
                               /\ notifications[k] = notifications'[i]
                               /\ notifications[l] = notifications'[j] ]_vars

\* A timer has expired and left in the list a notification of duration 0
\* that was shown before it
C30_Witness ==
    /\ last.op = "timeout"
    /\ ~listed(last.id)
    /\ \E id \in NotificationIds : listed(id) /\ durationOf(id) = 0

====
